---------------------------- MODULE Spec2Model ----------------------------
(***************************************************************************)
(* A model of the note-relocation logic of vscode-ai-notetaking:           *)
(*   - upsertFrontmatterKeys      (frontmatter.ts, src/unnamed/part_004)   *)
(*   - chatCompletionWithRetry    (ai.ts,          src/unnamed/part_004)   *)
(*   - removeEmptyDirsRecursively (extension.ts,   src/unnamed/part_000,   *)
(*                                 part_001, src/src/extension.ts)         *)
(*   - the save / new-note / reclassify handlers and moveAndTagFile        *)
(*                                                                         *)
(* Text is modelled as a sequence of symbols.  A symbol is one character   *)
(* ("-", ":", " ", "\n", ...) or one whole word ("tags", "title"), which   *)
(* stands for the letters of the word; no operation of the code splits a   *)
(* word, so that a word behaves as a run of [a-zA-Z0-9_] characters.       *)
(***************************************************************************)
EXTENDS Integers, Sequences, FiniteSets, TLC

VARIABLES
    \* ---- frontmatter editor (SpecUpsert) ----
    doc,        \* text of the document handed to upsertFrontmatterKeys
    keyValues,  \* the mapping to upsert, in Object.entries order
    orig,       \* history: text of the document before the first upsert
    prev,       \* history: text of the document before the latest upsert
    applied,    \* number of upserts applied so far
    \* ---- file system ----
    dirs,       \* the directories that exist (paths, as sequences of names)
    files,      \* the files that exist: path |-> text
    \* ---- removeEmptyDirsRecursively (SpecPrune, SpecNotes) ----
    workspaceFolder, \* vscode.workspace.workspaceFolders?.[0]?.uri.fsPath
    startDir,   \* the argument dir
    curr,       \* the local curr
    entries,    \* the local entries, as read by the latest readdir
    prunePc,    \* where the call stands: idle, test, readdir, rmdir, done, threw
    deleted,    \* history: the directories removed by the call
    dirs0,      \* history: dirs when the call started
    files0,     \* history: files when the call started
    \* ---- the handlers (SpecNotes) ----
    handler,    \* which handler runs
    reclassify, \* handleNote's parameter
    apiKey,     \* aiNoteSaver.openaiApiKey is set
    activeEditor, \* vscode.window.activeTextEditor is defined
    docFile,    \* doc.fileName / doc.uri.fsPath; Untitled for an untitled document
    docMarkdown, \* the document passes the handler's Markdown test
    fsStart,    \* history: <<dirs, files>> when the handler started
    pc,         \* where the handler stands; "returned" and "rejected" end it
    messages,   \* the kinds of notice shown: error, warning, cancelled
                \* (notices of progress are not recorded)
    docText,    \* doc.getText(): the text in the editor
    docDirty,   \* doc.isDirty
    origContent, \* moveAndTagFile's local origContent
    aiTags,     \* the tags the model suggested
    aiPath,     \* the folder the model suggested, as segments
    aiName,     \* the name (slug) the model suggested
    finalTags,  \* the tags after the user's prompt
    finalDir,   \* the relative folder after the user's prompt
    finalName,  \* the name after the user's prompt
    retryPc,    \* chatCompletionWithRetry: idle, loop, returned, threw
    attempt,    \* chatCompletionWithRetry's loop variable
    outcomes,   \* history: did each aiCompletion of the current call succeed
    cancelled,  \* history: the user dismissed a prompt
    aiFailed,   \* history: a suggestion call failed
    fsFailed,   \* history: a file-system step failed
    targetRootSet, \* aiNoteSaver.targetRoot has a value
    calls,      \* history: the kinds of outside call made so far: ai, fs
    \* ---- PathMatcher (SpecMatch) ----
    existingFolders, \* the folders the scanner returned, in its order
    suggestion, \* aiPath, the suggested folder
    folderScores, \* the score of every folder, in the order of existingFolders
    ranked,     \* topMatches
    matchPc,    \* idle, input, ranked
    \* ---- FolderScanner (SpecScan) ----
    unreadable, \* the directories whose readdir rejects
    scanDepth,  \* the argument depth
    scanned,    \* the result of getAllFolders
    scanPc,     \* idle, input, done
    \* ---- two invocations in one session (SpecSession) ----
    procs,      \* invocation |-> where it stands and what it works on
    \* ---- the save listeners of ai-notes.newNote (SpecListen) ----
    listeners,  \* draft |-> none, subscribed, disposed
    runs,       \* history: draft |-> how often its listener began to relocate
    stage,      \* draft |-> where the run of its listener stands
    triggeredBy,\* history: draft |-> the documents whose save began a run
    saveCount   \* history: document |-> how often it was saved

upsertVars == <<doc, keyValues, orig, prev, applied>>
fsVars     == <<dirs, files>>
pruneVars  == <<workspaceFolder, startDir, curr, entries, prunePc, deleted, dirs0, files0>>

envVars    == <<handler, reclassify, apiKey, targetRootSet, activeEditor, docFile,
                docMarkdown, fsStart>>
bufVars    == <<docText, docDirty, origContent>>
aiVars     == <<aiTags, aiPath, aiName>>
userVars   == <<finalTags, finalDir, finalName>>
retryVars  == <<retryPc, attempt, outcomes>>
histVars   == <<cancelled, aiFailed, fsFailed, calls>>
noteVars   == <<envVars, pc, messages, bufVars, aiVars, userVars, retryVars, histVars>>

matchVars  == <<existingFolders, suggestion, folderScores, ranked, matchPc>>
scanVars   == <<unreadable, scanDepth, scanned, scanPc>>
listenVars == <<listeners, runs, stage, triggeredBy, saveCount>>
sideVars   == <<matchVars, scanVars, procs, listenVars>>

vars == <<upsertVars, fsVars, pruneVars, noteVars, sideVars>>

-----------------------------------------------------------------------------
(* Bounds of the model *)

\* longest document, in lines, that Init hands to the frontmatter editor
MaxLines == 5

-----------------------------------------------------------------------------
(* Text helpers: what the JavaScript string methods used by the code do *)

NL == "\n"

Dashes == <<"-", "-", "-">>

Min(S) == CHOOSE x \in S : \A y \in S : x <= y

\* String.prototype.trim's white space, as far as it occurs inside a line
IsSpace(a) == a \in {" ", "\t"}

\* [a-zA-Z0-9_-]: the characters of a key in /^([a-zA-Z0-9_-]+):/
IsKeyChar(a) ==
    a \in {"tags", "title", "constructor", "Tags", "x", "y", "a", "B", "T", "1", "-", "_"}

\* s.trim()
Trim(s) ==
    LET keep == {i \in 1..Len(s) : ~IsSpace(s[i])}
    IN  IF keep = {} THEN <<>>
        ELSE SubSeq(s, Min(keep), CHOOSE i \in keep : \A j \in keep : j <= i)

RECURSIVE Split(_)
\* s.split('\n')
Split(s) ==
    LET nls == {i \in 1..Len(s) : s[i] = NL}
    IN  IF nls = {} THEN <<s>>
        ELSE <<SubSeq(s, 1, Min(nls) - 1)>> \o Split(SubSeq(s, Min(nls) + 1, Len(s)))

RECURSIVE JoinWith(_, _)
\* parts.join(sep)
JoinWith(parts, sep) ==
    IF Len(parts) = 0 THEN <<>>
    ELSE IF Len(parts) = 1 THEN parts[1]
    ELSE parts[1] \o sep \o JoinWith(Tail(parts), sep)

\* lines.join('\n')
JoinLines(lines) == JoinWith(lines, <<NL>>)

-----------------------------------------------------------------------------
(* The file system: directories and files by path *)

Root      == <<>>                    \* "/"
SysDir    == <<"sys">>               \* what a real "/" always holds
WS        == <<"ws">>                \* the folder opened as workspace
Undefined == <<"?undefined">>        \* workspaceFolders is undefined or empty

\* the directories the model knows
DirUniverse ==
    { Root, SysDir, WS,
      <<"ws", "a">>, <<"ws", "a", "b">>, <<"ws", "c">>, <<"ws", "_drafts">>,
      <<"out">>, <<"out", "d">> }

\* path.dirname(p); path.dirname("/") is "/"
Parent(p) == IF p = <<>> THEN <<>> ELSE SubSeq(p, 1, Len(p) - 1)

\* what fs.readdir(d) lists in file system (ds, fs)
EntriesIn(ds, fs, d) == {p \in (ds \cup DOMAIN fs) : p # Root /\ Parent(p) = d}

Entries(d) == EntriesIn(dirs, files, d)

\* every directory's parent exists, and so does every file's
WellFormedFs(ds, fs) ==
    /\ \A d \in ds : Parent(d) \in ds
    /\ \A f \in DOMAIN fs : Parent(f) \in ds /\ f \notin ds

NoFiles == [f \in {} |-> <<>>]

\* the file system at rest (the frontmatter specification)
FsIdle ==
    /\ dirs = {Root, SysDir, WS}
    /\ files = NoFiles

\* an untitled document has no file
Untitled == <<"?untitled">>

\* no handler runs (the frontmatter and pruner specifications)
NotesIdle ==
    /\ handler = "none"
    /\ reclassify = FALSE
    /\ apiKey = FALSE
    /\ activeEditor = FALSE
    /\ docFile = Untitled
    /\ docMarkdown = FALSE
    /\ fsStart = <<dirs, files>>
    /\ pc = "idle"
    /\ messages = {}
    /\ docText = <<>>
    /\ docDirty = FALSE
    /\ origContent = <<>>
    /\ aiTags = <<>>
    /\ aiPath = <<>>
    /\ aiName = ""
    /\ finalTags = <<>>
    /\ finalDir = <<>>
    /\ finalName = ""
    /\ retryPc = "idle"
    /\ attempt = 0
    /\ outcomes = <<>>
    /\ cancelled = FALSE
    /\ aiFailed = FALSE
    /\ fsFailed = FALSE
    /\ targetRootSet = FALSE
    /\ calls = {}

\* the path matcher at rest
MatchIdle ==
    /\ existingFolders = <<>>
    /\ suggestion = <<>>
    /\ folderScores = <<>>
    /\ ranked = <<>>
    /\ matchPc = "idle"

\* the folder scanner at rest; every directory can be read
ScanIdle ==
    /\ unreadable = {}
    /\ scanDepth = 0
    /\ scanned = <<>>
    /\ scanPc = "idle"

\* no invocation is under way
SessionIdle == procs = <<>>

\* ai-notes.newNote was not run
ListenIdle ==
    /\ listeners = <<>>
    /\ runs = <<>>
    /\ stage = <<>>
    /\ triggeredBy = <<>>
    /\ saveCount = <<>>

SideIdle == MatchIdle /\ ScanIdle /\ SessionIdle /\ ListenIdle

-----------------------------------------------------------------------------
(* DirectoryPruner: removeEmptyDirsRecursively                             *)
(* (src/unnamed/part_001:311-324, part_000:286-299, src/src/extension.ts)  *)

\* a loop that does not test the boundary
LoopGuard_NoBoundary(c, boundary) == TRUE

\* a loop whose body is never entered
LoopGuard_Never(c, boundary) == FALSE

\* while (curr !== workspaceFolder)
LoopGuard(c, boundary) == c # boundary

\* a call that removes one directory and returns
AfterRmdir_Once == "done"

\* after rmdir and curr = path.dirname(curr), the loop tests again
AfterRmdir == "test"

PruneIdle ==
    /\ workspaceFolder = Undefined
    /\ startDir = Root
    /\ curr = Root
    /\ entries = {}
    /\ prunePc = "idle"
    /\ deleted = {}
    /\ dirs0 = {}
    /\ files0 = NoFiles

\* removeEmptyDirsRecursively(dir) is entered: let curr = dir.  The caller's
\* step fixes dirs' and files', the file system the call starts with.
PruneEnter(dir) ==
    /\ startDir' = dir
    /\ curr' = dir
    /\ entries' = {}
    /\ prunePc' = "test"
    /\ deleted' = {}
    /\ dirs0' = dirs'
    /\ files0' = files'

\* the loop test: curr !== workspaceFolder, else the function returns
PruneTest ==
    /\ prunePc = "test"
    /\ prunePc' = IF LoopGuard(curr, workspaceFolder) THEN "readdir" ELSE "done"
    /\ UNCHANGED <<upsertVars, noteVars, sideVars, fsVars, workspaceFolder, startDir, curr,
                   entries, deleted, dirs0, files0>>

\* const entries = await fs.readdir(curr): rejects when curr is no directory
\* (ENOENT, ENOTDIR) or cannot be read; if (entries.length === 0) ... else break
PruneReaddir ==
    /\ prunePc = "readdir"
    /\ \E readable \in BOOLEAN :
          IF curr \in dirs /\ readable
          THEN /\ entries' = Entries(curr)
               /\ prunePc' = IF Entries(curr) = {} THEN "rmdir" ELSE "done"
          ELSE /\ entries' = entries
               /\ prunePc' = "threw"
    /\ UNCHANGED <<upsertVars, noteVars, sideVars, fsVars, workspaceFolder, startDir, curr,
                   deleted, dirs0, files0>>

\* await fs.rmdir(curr); curr = path.dirname(curr).  rmdir rejects for a
\* directory that is not empty (ENOTEMPTY), is gone, or may not be removed.
PruneRmdir ==
    /\ prunePc = "rmdir"
    /\ \E permitted \in BOOLEAN :
          IF curr \in dirs /\ Entries(curr) = {} /\ curr # Root /\ permitted
          THEN /\ dirs' = dirs \ {curr}
               /\ deleted' = deleted \cup {curr}
               /\ curr' = Parent(curr)
               /\ prunePc' = AfterRmdir
          ELSE /\ prunePc' = "threw"
               /\ UNCHANGED <<dirs, deleted, curr>>
    /\ UNCHANGED <<upsertVars, noteVars, sideVars, files, workspaceFolder, startDir, entries,
                   dirs0, files0>>

PruneStep == PruneTest \/ PruneReaddir \/ PruneRmdir

-----------------------------------------------------------------------------
(* FrontmatterEditor: upsertFrontmatterKeys (src/unnamed/part_004:190-245) *)

\* A value of the mapping: a string (items has one element) or a string[]
ScalarValue(text) == [isArray |-> FALSE, items |-> <<text>>]
ArrayValue(elems) == [isArray |-> TRUE, items |-> elems]

NoKey == <<>>

\* Property names every object literal inherits from Object.prototype: for
\* these, newKeyLines[name] is defined (and truthy) although no key was upserted
InheritedNames == {<<"constructor">>}

\* String(Object.prototype[name]), what join() makes of the inherited member
InheritedText(name) == <<"function Object() { [native code] }">>

\* const yamlRegex = /^---\n([\s\S]*?)?---\n?/ ;  content.match(yamlRegex):
\* the length of existingYamlMatch[0], or 0 when the match is null.  The match
\* needs "---\n" at offset 0, then runs lazily to the FIRST later "---",
\* wherever in a line it stands, and takes one "\n" after it when there is one.
YamlMatchLen(content) ==
    IF Len(content) >= 4 /\ SubSeq(content, 1, 4) = Dashes \o <<NL>>
    THEN LET closers == {j \in 5..(Len(content) - 2) : SubSeq(content, j, j + 2) = Dashes}
         IN  IF closers = {} THEN 0
             ELSE LET last == Min(closers) + 2
                  IN  IF last < Len(content) /\ content[last + 1] = NL
                      THEN last + 1 ELSE last
    ELSE 0

\* a rendering that joins the elements of an array with "," alone
RenderLine_CommaOnly(key, value) ==
    IF value.isArray
    THEN key \o <<":", " ", "[">> \o JoinWith(value.items, <<",">>) \o <<"]">>
    ELSE key \o <<":", " ">> \o value.items[1]

\* Array.isArray(value) ? `${key}: [${value.join(', ')}]` : `${key}: ${value}`
RenderLine(key, value) ==
    IF value.isArray
    THEN key \o <<":", " ", "[">> \o JoinWith(value.items, <<",", " ">>) \o <<"]">>
    ELSE key \o <<":", " ">> \o value.items[1]

\* newKeyLines, as the sequence Object.entries(newKeyLines) walks
NewKeyLines(kv) ==
    [i \in 1..Len(kv) |-> [key |-> kv[i].key, line |-> RenderLine(kv[i].key, kv[i].value)]]

\* trimmed.match(/^([a-zA-Z0-9_-]+):/): keyMatch[1], or NoKey for no match
KeyOf(trimmed) ==
    LET stops == {i \in 1..Len(trimmed) : ~IsKeyChar(trimmed[i])}
    IN  IF stops = {} THEN NoKey
        ELSE IF Min(stops) > 1 /\ trimmed[Min(stops)] = ":"
             THEN SubSeq(trimmed, 1, Min(stops) - 1)
             ELSE NoKey

OwnKeys(kv) == {kv[i].key : i \in 1..Len(kv)}

\* keyMatch && newKeyLines[keyMatch[1]]: an own key, or an inherited member
KeyHit(kv, line) ==
    LET key == KeyOf(Trim(line))
    IN  key # NoKey /\ (key \in OwnKeys(kv) \/ key \in InheritedNames)

\* newKeyLines[keyMatch[1]]
LookupLine(kv, key) ==
    IF key \in OwnKeys(kv)
    THEN NewKeyLines(kv)[CHOOSE i \in 1..Len(kv) : kv[i].key = key].line
    ELSE InheritedText(key)

\* yamlLines.filter(line => line.trim() !== '' && line.trim() !== '---')
KeepYamlLine(line) == Trim(line) # <<>> /\ Trim(line) # Dashes

\* yamlBlock.split('\n') after the filter
FilteredYamlLines(content) ==
    SelectSeq(Split(SubSeq(content, 1, YamlMatchLen(content))), KeepYamlLine)

\* yamlLines.map(line => ...): a line whose key is hit is replaced whole
MappedYamlLines(content, kv) ==
    LET lines == FilteredYamlLines(content)
    IN  [i \in 1..Len(lines) |->
            IF KeyHit(kv, lines[i]) THEN LookupLine(kv, KeyOf(Trim(lines[i])))
            ELSE lines[i]]

\* a map that forgets updatedKeys.add(keyMatch[1])
UpdatedKeys_Forgotten(content, kv) == {}

\* updatedKeys after the map
UpdatedKeys(content, kv) ==
    LET lines == FilteredYamlLines(content)
    IN  {KeyOf(Trim(lines[i])) : i \in {j \in 1..Len(lines) : KeyHit(kv, lines[j])}}

\* a loop that pushes the line of every key, updated or not
MissingLines_All(newLines, updated) == [i \in 1..Len(newLines) |-> newLines[i].line]

RECURSIVE MissingLines(_, _)
\* for (const [key, line] of Object.entries(newKeyLines))
\*     if (!updatedKeys.has(key)) yamlLines.push(line)
MissingLines(newLines, updated) ==
    IF newLines = <<>> THEN <<>>
    ELSE (IF newLines[1].key \in updated THEN <<>> ELSE <<newLines[1].line>>)
         \o MissingLines(Tail(newLines), updated)

\* Object.values(newKeyLines)
AllNewLines(kv) == [i \in 1..Len(kv) |-> NewKeyLines(kv)[i].line]

\* `---\n${lines.join('\n')}\n---\n`
YamlBlockOf(lines) == Dashes \o <<NL>> \o JoinLines(lines) \o <<NL>> \o Dashes \o <<NL>>

\* newContent of upsertFrontmatterKeys(doc, keyValues), for doc.getText() = content
upsertFrontmatterKeys(content, kv) ==
    IF YamlMatchLen(content) > 0
    THEN LET yamlLines == MappedYamlLines(content, kv)
                          \o MissingLines(NewKeyLines(kv), UpdatedKeys(content, kv))
             newYaml   == IF Len(yamlLines) > 0 THEN YamlBlockOf(yamlLines)
                          ELSE YamlBlockOf(AllNewLines(kv))
         IN  newYaml \o SubSeq(content, YamlMatchLen(content) + 1, Len(content))
    ELSE YamlBlockOf(AllNewLines(kv)) \o content

-----------------------------------------------------------------------------
(* Inputs of the frontmatter editor *)

TagsKey  == <<"tags">>
TitleKey == <<"title">>

\* the lines a document is made of
LinePool ==
    { Dashes,                                    \* ---
      <<>>,                                      \* (blank)
      <<"tags", ":", " ", "[", "a", "]">>,       \* tags: [a]
      <<"title", ":", " ", "T">>,                \* title: T
      <<"x", "-", "-", "-">>,                    \* x---
      <<"constructor", ":", " ", "1">>,          \* constructor: 1
      <<"#", " ", "T">> }                        \* # T

RECURSIVE LineSeqs(_)
LineSeqs(n) ==
    IF n = 0 THEN {<<>>}
    ELSE LET shorter == LineSeqs(n - 1)
         IN  shorter \cup {Append(ls, l) : ls \in {s \in shorter : Len(s) = n - 1}, l \in LinePool}

\* every document of at most MaxLines lines; a last blank line is a final "\n"
DocPool == {JoinLines(ls) : ls \in LineSeqs(MaxLines)}

\* the mappings upserted: upsertFrontmatterKey(doc, 'tags', tags) and
\* two-key mappings in both orders
MappingPool ==
    { <<>>,
      <<[key |-> TagsKey, value |-> ArrayValue(<< <<"x">>, <<"y">> >>)]>>,
      <<[key |-> TagsKey, value |-> ArrayValue(<<>>)],
        [key |-> TitleKey, value |-> ScalarValue(<<"a">>)]>>,
      <<[key |-> TitleKey, value |-> ScalarValue(<<"a">>)],
        [key |-> TagsKey, value |-> ArrayValue(<< <<"x">> >>)]>> }

\* the frontmatter editor at rest (the other specifications)
UpsertIdle ==
    /\ doc = <<>>
    /\ keyValues = <<>>
    /\ orig = <<>>
    /\ prev = <<>>
    /\ applied = 0

InitUpsert ==
    /\ FsIdle
    /\ PruneIdle
    /\ NotesIdle
    /\ SideIdle
    /\ doc \in DocPool
    /\ keyValues \in MappingPool
    /\ orig = doc
    /\ prev = doc
    /\ applied = 0

\* one call of upsertFrontmatterKeys: applyEdit replaces the whole text, then save
UpsertCall ==
    /\ applied < 2
    /\ prev' = doc
    /\ doc' = upsertFrontmatterKeys(doc, keyValues)
    /\ applied' = applied + 1
    /\ UNCHANGED <<keyValues, orig, fsVars, pruneVars, noteVars, sideVars>>

NextUpsert == UpsertCall

SpecUpsert == InitUpsert /\ [][NextUpsert]_vars

-----------------------------------------------------------------------------
(* SpecPrune: one call of removeEmptyDirsRecursively, from any directory of *)
(* any tree                                                                 *)

\* the places a file may be in
FileSlots == {d \o <<"f.md">> : d \in DirUniverse \ {Root, SysDir}}

InitPrune ==
    /\ UpsertIdle
    /\ dirs \in {ds \in SUBSET DirUniverse : {Root, SysDir, WS} \subseteq ds}
    /\ \E fset \in SUBSET FileSlots : files = [f \in fset |-> <<>>]
    /\ WellFormedFs(dirs, files)
    /\ workspaceFolder \in {WS, Undefined}
    /\ startDir \in DirUniverse \ {SysDir}
    /\ curr = startDir
    /\ entries = {}
    /\ prunePc = "test"
    /\ deleted = {}
    /\ dirs0 = dirs
    /\ files0 = files
    /\ NotesIdle
    /\ SideIdle

NextPrune == PruneStep

SpecPrune == InitPrune /\ [][NextPrune]_vars

\* every awaited promise of fs.readdir and fs.rmdir settles, so a call that
\* can take a step takes it
SpecPruneLive == SpecPrune /\ WF_vars(NextPrune)

-----------------------------------------------------------------------------
(* The handlers: helpers                                                   *)
(*                                                                         *)
(* A relative folder path is the sequence of its segments; '' is <<>>.     *)
(* A file is named by its stem: "n" is n.md in the AI Note Saver handlers  *)
(* and n_<dd-mm-yyyy>.md in the ai-notes handlers.                         *)

\* every prefix of path p, p included: what mkdir(p, {recursive: true}) makes
Ancestors(p) == {SubSeq(p, 1, k) : k \in 0..Len(p)}

\* recursive mkdir fails when a file stands where a directory is needed
CanMkdir(p) == \A a \in Ancestors(p) : a \notin DOMAIN files

\* a write that reports success and writes nothing
WriteF_Nothing(fs, p, t) == fs

\* fs with text t written to path p
WriteF(fs, p, t) == [f \in (DOMAIN fs) \cup {p} |-> IF f = p THEN t ELSE fs[f]]

\* fs without path p
RemoveF(fs, p) == [f \in (DOMAIN fs) \ {p} |-> fs[f]]

\* the order in which readdir lists names
NameOrder == <<"_drafts", "a", "b", "c", "d", "out", "sys", "ws">>

NameRank(name) == CHOOSE i \in 1..Len(NameOrder) : NameOrder[i] = name

RECURSIVE SortedNames(_)
\* the names of a listing, in readdir order
SortedNames(S) ==
    IF S = {} THEN <<>>
    ELSE LET first == CHOOSE x \in S : \A y \in S : NameRank(x) <= NameRank(y)
         IN  <<first>> \o SortedNames(S \ {first})

\* a scan that goes on below its depth
ScanStops_Never(depth) == FALSE

\* if (depth === 0) return []
ScanStops(depth) == depth = 0

\* a listing that never rejects
ReaddirFails_Never(here) == FALSE

\* fs.readdir(path.join(root, prefix)) rejects: caught by catch (e) {}
ReaddirFails(here) == here \notin dirs \/ here \in unreadable

\* entry.isDirectory()
IsDirectory(entry) == entry \in dirs

RECURSIVE getAllFolders(_, _, _)
\* getAllFolders(root, depth, prefix): the relative paths of the directories
\* under root, parents before children, at most depth levels deep
getAllFolders(root, depth, prefix) ==
    IF ScanStops(depth) THEN <<>>
    ELSE LET here  == root \o prefix
             names == SortedNames({p[Len(p)] : p \in {q \in Entries(here) : IsDirectory(q)}})
             Walk[i \in 0..Len(names)] ==
                 IF i = 0 THEN <<>>
                 ELSE Walk[i - 1] \o <<prefix \o <<names[i]>>>>
                      \o getAllFolders(root, depth - 1, prefix \o <<names[i]>>)
         IN  IF ReaddirFails(here) THEN <<>> ELSE Walk[Len(names)]

\* seg.replace(/_/g, '-'), on the names of the model
dashed(name) ==
    CASE name = "_drafts"  -> "-drafts"
      [] name = "my_notes" -> "my-notes"
      [] OTHER             -> name

\* s.toLowerCase(), on the names of the model
lowered(name) ==
    CASE name = "Proj"     -> "proj"
      [] name = "My-Notes" -> "my-notes"
      [] OTHER             -> name

\* normalize = s => s.replace(/_/g, '-').toLowerCase(), on one segment
normalize(name) == lowered(dashed(name))

\* aiPath.split('/').slice(0, 3).map(seg => seg.replace(/_/g, '-')).join('/')
SanitizePath(raw) ==
    [i \in 1..(IF Len(raw) < 3 THEN Len(raw) ELSE 3) |-> dashed(raw[i])]

\* a scoring that rewards a difference in length
similarity_Bonus(a, b) ==
    LET aSegs == IF a = <<>> THEN <<"">> ELSE [i \in 1..Len(a) |-> normalize(a[i])]
        bSegs == IF b = <<>> THEN <<"">> ELSE [i \in 1..Len(b) |-> normalize(b[i])]
        short == IF Len(aSegs) < Len(bSegs) THEN Len(aSegs) ELSE Len(bSegs)
        diff  == IF Len(aSegs) < Len(bSegs) THEN Len(bSegs) - Len(aSegs)
                 ELSE Len(aSegs) - Len(bSegs)
        score == Cardinality({i \in 1..short : \A j \in 1..i : aSegs[j] = bSegs[j]})
    IN  score * 2 + diff

\* a scoring without the penalty for the difference in length
similarity_NoPenalty(a, b) ==
    LET aSegs == IF a = <<>> THEN <<"">> ELSE [i \in 1..Len(a) |-> normalize(a[i])]
        bSegs == IF b = <<>> THEN <<"">> ELSE [i \in 1..Len(b) |-> normalize(b[i])]
        short == IF Len(aSegs) < Len(bSegs) THEN Len(aSegs) ELSE Len(bSegs)
        score == Cardinality({i \in 1..short : \A j \in 1..i : aSegs[j] = bSegs[j]})
    IN  score * 2

\* a scoring that compares the segments as they are spelled
similarity_Verbatim(a, b) ==
    LET aSegs == IF a = <<>> THEN <<"">> ELSE a
        bSegs == IF b = <<>> THEN <<"">> ELSE b
        short == IF Len(aSegs) < Len(bSegs) THEN Len(aSegs) ELSE Len(bSegs)
        diff  == IF Len(aSegs) < Len(bSegs) THEN Len(bSegs) - Len(aSegs)
                 ELSE Len(aSegs) - Len(bSegs)
        score == Cardinality({i \in 1..short : \A j \in 1..i : aSegs[j] = bSegs[j]})
    IN  score * 2 - diff

\* similarity(a, b): twice the common prefix, less the difference in length.
\* ''.split(sep) is [''], one segment that equals no name.
similarity(a, b) ==
    LET aSegs == IF a = <<>> THEN <<"">> ELSE [i \in 1..Len(a) |-> normalize(a[i])]
        bSegs == IF b = <<>> THEN <<"">> ELSE [i \in 1..Len(b) |-> normalize(b[i])]
        short == IF Len(aSegs) < Len(bSegs) THEN Len(aSegs) ELSE Len(bSegs)
        diff  == IF Len(aSegs) < Len(bSegs) THEN Len(bSegs) - Len(aSegs)
                 ELSE Len(aSegs) - Len(bSegs)
        score == Cardinality({i \in 1..short : \A j \in 1..i : aSegs[j] = bSegs[j]})
    IN  score * 2 - diff

\* a sort that puts the later of two equal scores first
SortByScore_LaterFirst(folders, target) ==
    LET Better(i, j) == \/ similarity(folders[i], target) > similarity(folders[j], target)
                        \/ /\ similarity(folders[i], target) = similarity(folders[j], target)
                           /\ i > j
        Place(i) == 1 + Cardinality({j \in 1..Len(folders) : Better(j, i)})
    IN  [k \in 1..Len(folders) |-> folders[CHOOSE i \in 1..Len(folders) : Place(i) = k]]

RECURSIVE SortByScore(_, _)
\* folderScores.sort((a, b) => b.score - a.score): descending and stable
SortByScore(folders, target) ==
    IF folders = <<>> THEN <<>>
    ELSE LET best == CHOOSE i \in 1..Len(folders) :
                        /\ \A j \in 1..Len(folders) :
                              similarity(folders[j], target) <= similarity(folders[i], target)
                        /\ \A j \in 1..(i - 1) :
                              similarity(folders[j], target) < similarity(folders[i], target)
             rest == [k \in 1..(Len(folders) - 1) |->
                        IF k < best THEN folders[k] ELSE folders[k + 1]]
         IN  <<folders[best]>> \o SortByScore(rest, target)

\* folderScores.filter(f => f.score > 0).slice(0, 3)
topMatches(folders, target) ==
    LET sorted   == SortByScore(folders, target)
        Positive(f) == similarity(f, target) > 0
        kept     == SelectSeq(sorted, Positive)
    IN  SubSeq(kept, 1, IF Len(kept) < 3 THEN Len(kept) ELSE 3)

\* /^Tags:/.test(line)
StartsWithTags(line) == Len(line) >= 2 /\ line[1] = "Tags" /\ line[2] = ":"

\* /^\s*#/.test(line)
IsTitle(line) ==
    LET solid == {i \in 1..Len(line) : ~IsSpace(line[i])}
    IN  solid # {} /\ line[Min(solid)] = "#"

\* getTitleIndex(lines): the 0-based index of the first title line, else 0
getTitleIndex(lines) ==
    LET hits == {i \in 1..Len(lines) : IsTitle(lines[i])}
    IN  IF hits = {} THEN 0 ELSE Min(hits) - 1

\* `Tags: ${tags.join(', ')}`
TagsLine(tags) == <<"Tags", ":", " ">> \o JoinWith(tags, <<",", " ">>)

\* insertTags(lines, tags): copy.splice(idx + 1, 0, tagsLine)
insertTags(lines, tags) ==
    LET idx == getTitleIndex(lines)
        at  == IF idx + 1 < Len(lines) THEN idx + 1 ELSE Len(lines)
    IN  SubSeq(lines, 1, at) \o <<TagsLine(tags)>> \o SubSeq(lines, at + 1, Len(lines))

\* newContent of moveAndTagFile: split, drop the Tags lines when reclassify,
\* insert the new Tags line, join
NewContent(content, tags, reclass) ==
    LET lines == Split(content)
        NotTags(line) == ~StartsWithTags(line)
        kept  == IF reclass THEN SelectSeq(lines, NotTags) ELSE lines
    IN  JoinLines(insertTags(kept, tags))

\* a creation that writes the tags as a plain line
YamlHeader_PlainLine(tags) == <<"Tags", ":", " ">> \o JoinWith(tags, <<",", " ">>) \o <<NL>>

\* `---\ntags: [${tags.join(', ')}]\n---\n`, inserted at position (0, 0)
YamlHeader(tags) ==
    Dashes \o <<NL, "tags", ":", " ", "[">> \o JoinWith(tags, <<",", " ">>)
           \o <<"]", NL>> \o Dashes \o <<NL>>

-----------------------------------------------------------------------------
(* The handlers: what they start from                                      *)

\* handleNote         AI Note Saver, src/unnamed/part_001:46-121
\* handleNote0        AI Note Saver, src/src/extension.ts:46-120
\* reclassifyNote     ai-notes.reclassifyNote, src/unnamed/part_000:93-150
\* saveListener       the save listener of ai-notes.newNote, part_000:50-89
\* saveListener0      the save listener of src/src/extension.ts:551-580
Handlers == {"handleNote", "handleNote0", "reclassifyNote", "saveListener", "saveListener0"}

IsNoteSaver == handler \in {"handleNote", "handleNote0"}
IsAiNotes   == handler \in {"reclassifyNote", "saveListener"}
IsListener  == handler \in {"saveListener", "saveListener0"}

\* the notes a handler may find
NotePool ==
    { <<"#", " ", "T">>,                                              \* # T
      <<"#", " ", "T", NL, "Tags", ":", " ", "a">>,                   \* # T\nTags: a
      Dashes \o <<NL, "tags", ":", " ", "[", "a", "]", NL>> \o Dashes
             \o <<NL, "#", " ", "T">> }                               \* ---\ntags: [a]\n---\n# T

\* what an unsaved edit adds to the text on disk
Unsaved == <<NL, "B">>

DraftFile == <<"ws", "_drafts", "n">>

\* where the note may be
NoteFiles == { <<"ws", "n">>, <<"ws", "a", "b", "n">>, <<"out", "d", "n">>, DraftFile }

\* another file next to the note
Sibling(f) == Parent(f) \o <<"f">>

\* a file that stands where the note may be sent
Obstacle == <<"ws", "c", "m">>

\* what the language model may answer
TagsPool == { << <<"x">>, <<"y">> >>, <<>> }
PathPool == { <<"c">>, <<"a", "b">>, <<"Proj">>, <<>> }
NamePool == { "m", "" }

\* extractTags: content.split(',').map(t => t.trim()) is never empty;
\* generateSlug: sanitizeSlug(raw) || 'note' is never ''
ExtractedTags == { << <<"x">>, <<"y">> >> }
SlugPool      == { "m" }

\* what the user may type
TypedTags  == { << <<"x">> >>, <<>> }
TypedPaths == { <<"c">>, <<"Proj">>, <<>> }
TypedNames == { "n", "" }

\* the answers to showInputBox: undefined (dismissed), or the text typed;
\* text is `none` when nothing is given
InputAnswers(texts, none) ==
    {[given |-> FALSE, text |-> none]} \cup {[given |-> TRUE, text |-> t] : t \in texts}

InitNotes ==
    /\ UpsertIdle
    /\ SideIdle
    /\ handler \in Handlers
    /\ reclassify \in (IF IsNoteSaver THEN BOOLEAN ELSE {FALSE})
    /\ apiKey \in (IF IsNoteSaver THEN BOOLEAN ELSE {TRUE})
    /\ targetRootSet \in (IF IsNoteSaver THEN BOOLEAN ELSE {TRUE})
    /\ activeEditor \in (IF IsListener THEN {TRUE} ELSE BOOLEAN)
    /\ workspaceFolder \in (IF IsListener THEN {WS} ELSE {WS, Undefined})
    /\ docFile \in (IF IsListener THEN {DraftFile}
                    ELSE IF IsNoteSaver THEN NoteFiles \cup {Untitled}
                    ELSE NoteFiles)
    /\ docMarkdown \in (IF handler = "handleNote" THEN BOOLEAN
                        ELSE IF handler = "handleNote0" /\ docFile # Untitled THEN BOOLEAN
                        ELSE IF handler = "handleNote0" THEN {FALSE}
                        ELSE {TRUE})
    /\ \E onDisk \in NotePool, dirty \in BOOLEAN, sibling \in BOOLEAN, target \in 0..2 :
          /\ docDirty = (IF docFile = Untitled THEN TRUE
                         ELSE IF IsListener THEN FALSE ELSE dirty)
          /\ docText = IF docDirty /\ docFile # Untitled THEN onDisk \o Unsaved ELSE onDisk
          /\ dirs = {Root, SysDir, WS}
                    \cup (IF docFile = Untitled THEN {} ELSE Ancestors(Parent(docFile)))
                    \cup (IF target > 0 THEN {Parent(Obstacle)} ELSE {})
          /\ files = [f \in (IF docFile = Untitled THEN {} ELSE {docFile})
                            \cup (IF sibling /\ docFile # Untitled THEN {Sibling(docFile)} ELSE {})
                            \cup (IF target = 2 THEN {Obstacle} ELSE {})
                        |-> IF f = docFile THEN onDisk ELSE <<>>]
    /\ fsStart = <<dirs, files>>
    /\ startDir = Root
    /\ curr = Root
    /\ entries = {}
    /\ prunePc = "idle"
    /\ deleted = {}
    /\ dirs0 = {}
    /\ files0 = NoFiles
    /\ pc = "start"
    /\ messages = {}
    /\ origContent = <<>>
    /\ aiTags = <<>>
    /\ aiPath = <<>>
    /\ aiName = ""
    /\ finalTags = <<>>
    /\ finalDir = <<>>
    /\ finalName = ""
    /\ retryPc = "idle"
    /\ attempt = 0
    /\ outcomes = <<>>
    /\ cancelled = FALSE
    /\ aiFailed = FALSE
    /\ fsFailed = FALSE
    /\ calls = {}

-----------------------------------------------------------------------------
(* AI Note Saver: handleNote and moveAndTagFile                            *)
(* (src/unnamed/part_001:46-305, src/src/extension.ts:46-242)              *)

\* path.join(targetRoot, relPath), for targetRoot = "${workspaceFolder}", and
\* path.join(rootDir, selectedPath) of the ai-notes handlers
DestDir == workspaceFolder \o finalDir

\* path.join(destDir, fileName)
DestPath == DestDir \o <<finalName>>

\* a getExtensionConfig that tests the API key alone
ConfigThrows_KeyOnly == ~apiKey

\* getExtensionConfig throws: no API key, no workspace folder, or
\* rawTarget!.replace(...) on an undefined targetRoot (a TypeError)
ConfigThrows == ~apiKey \/ workspaceFolder = Undefined \/ ~targetRootSet

\* getExtensionConfig throws, or the editor or the Markdown test fails
HandleNoteStart ==
    /\ pc = "start"
    /\ IsNoteSaver
    /\ IF ConfigThrows
       THEN pc' = "returned" /\ messages' = messages \cup {"error"}
       ELSE IF ~activeEditor \/ ~docMarkdown
       THEN pc' = "returned" /\ messages' = messages \cup {"warning"}
       ELSE pc' = "extractTags" /\ messages' = messages
    /\ UNCHANGED <<envVars, upsertVars, sideVars, fsVars, pruneVars, bufVars, aiVars, userVars,
                   retryVars, histVars>>

\* const tags = await extractTags(openai, model, text): one request, which
\* the catch of handleNote reports when it fails
ExtractTags ==
    /\ pc = "extractTags"
    /\ \E ok \in BOOLEAN, tags \in ExtractedTags :
          IF ok
          THEN /\ aiTags' = tags
               /\ pc' = "generateRelPath"
               /\ UNCHANGED <<messages, aiFailed>>
          ELSE /\ aiFailed' = TRUE
               /\ pc' = "returned"
               /\ messages' = messages \cup {"error"}
               /\ UNCHANGED aiTags
    /\ calls' = calls \cup {"ai"}
    /\ UNCHANGED <<envVars, upsertVars, sideVars, fsVars, pruneVars, bufVars, aiPath, aiName,
                   userVars, retryVars, cancelled, fsFailed>>

\* the request of generateRelPath and the clean-up of its answer
GenerateRelPath ==
    /\ pc = "generateRelPath"
    /\ \E ok \in BOOLEAN, raw \in PathPool :
          IF ok
          THEN /\ aiPath' = SanitizePath(raw)
               /\ pc' = IF handler = "handleNote" THEN "pick" ELSE "generateSlug"
               /\ UNCHANGED <<messages, aiFailed>>
          ELSE /\ aiFailed' = TRUE
               /\ pc' = "returned"
               /\ messages' = messages \cup {"error"}
               /\ UNCHANGED aiPath
    /\ calls' = calls \cup (IF handler = "handleNote" THEN {"fs", "ai"} ELSE {"ai"})
    /\ UNCHANGED <<envVars, upsertVars, sideVars, fsVars, pruneVars, bufVars, aiTags, aiName,
                   userVars, retryVars, cancelled, fsFailed>>

\* the values offered by the quick pick of generateRelPath, "other" aside
PickOptions ==
    LET top == topMatches(getAllFolders(workspaceFolder, 3, <<>>), aiPath)
    IN  {top[i] : i \in 1..Len(top)} \cup {aiPath}

\* showQuickPick of generateRelPath (part_001:208-214): a dismissed pick and
\* a dismissed or empty manual path both give aiPath
PickFolder ==
    /\ pc = "pick"
    /\ handler = "handleNote"
    /\ \/ /\ finalDir' = aiPath
          /\ cancelled' = TRUE
       \/ /\ \E value \in PickOptions : finalDir' = value
          /\ cancelled' = cancelled
       \/ \E manual \in InputAnswers(TypedPaths, <<>>) :
             /\ finalDir' = IF manual.text # <<>> THEN manual.text ELSE aiPath
             /\ cancelled' = (cancelled \/ ~manual.given)
    /\ pc' = "generateSlug"
    /\ UNCHANGED <<envVars, upsertVars, sideVars, fsVars, pruneVars, bufVars, aiVars, finalTags,
                   finalName, retryVars, messages, aiFailed, fsFailed, calls>>

\* const slug = await generateSlug(openai, model, text)
GenerateSlug ==
    /\ pc = "generateSlug"
    /\ \E ok \in BOOLEAN, slug \in SlugPool :
          IF ok
          THEN /\ aiName' = slug
               /\ pc' = "promptTags"
               /\ UNCHANGED <<messages, aiFailed>>
          ELSE /\ aiFailed' = TRUE
               /\ pc' = "returned"
               /\ messages' = messages \cup {"error"}
               /\ UNCHANGED aiName
    /\ calls' = calls \cup {"ai"}
    /\ UNCHANGED <<envVars, upsertVars, sideVars, fsVars, pruneVars, bufVars, aiTags, aiPath,
                   userVars, retryVars, cancelled, fsFailed>>

\* 'Edit tags (comma-separated)': undefined cancels the operation
PromptTags ==
    /\ pc = "promptTags"
    /\ IsNoteSaver
    /\ \E answer \in InputAnswers({aiTags} \cup TypedTags, <<>>) :
          IF answer.given
          THEN /\ finalTags' = answer.text
               /\ pc' = IF handler = "handleNote" THEN "promptFileName" ELSE "promptRelPath"
               /\ UNCHANGED <<messages, cancelled>>
          ELSE /\ cancelled' = TRUE
               /\ messages' = messages \cup {"cancelled"}
               /\ pc' = "returned"
               /\ UNCHANGED finalTags
    /\ UNCHANGED <<envVars, upsertVars, sideVars, fsVars, pruneVars, bufVars, aiVars, finalDir,
                   finalName, retryVars, aiFailed, fsFailed, calls>>

\* 'Edit relative path under workspace' (src/src/extension.ts:91-99)
PromptRelPath ==
    /\ pc = "promptRelPath"
    /\ \E answer \in InputAnswers({aiPath} \cup TypedPaths, <<>>) :
          IF answer.given
          THEN /\ finalDir' = answer.text
               /\ pc' = "promptFileName"
               /\ UNCHANGED <<messages, cancelled>>
          ELSE /\ cancelled' = TRUE
               /\ messages' = messages \cup {"cancelled"}
               /\ pc' = "returned"
               /\ UNCHANGED finalDir
    /\ UNCHANGED <<envVars, upsertVars, sideVars, fsVars, pruneVars, bufVars, aiVars, finalTags,
                   finalName, retryVars, aiFailed, fsFailed, calls>>

\* 'Edit file name (include .md)'
PromptFileName ==
    /\ pc = "promptFileName"
    /\ \E answer \in InputAnswers({aiName} \cup (TypedNames \ {""}), "") :
          IF answer.given
          THEN /\ finalName' = answer.text
               /\ pc' = "mkdir"
               /\ UNCHANGED <<messages, cancelled>>
          ELSE /\ cancelled' = TRUE
               /\ messages' = messages \cup {"cancelled"}
               /\ pc' = "returned"
               /\ UNCHANGED finalName
    /\ UNCHANGED <<envVars, upsertVars, sideVars, fsVars, pruneVars, bufVars, aiVars, finalTags,
                   finalDir, retryVars, aiFailed, fsFailed, calls>>

\* what the catch of handleNote does with a rejected file-system step
CaughtFsError ==
    /\ fsFailed' = TRUE
    /\ pc' = "returned"
    /\ messages' = messages \cup {"error"}

\* await fs.mkdir(destDir, { recursive: true })
MkdirDest ==
    /\ pc = "mkdir"
    /\ IsNoteSaver
    /\ \E ok \in BOOLEAN :
          IF ok /\ CanMkdir(DestDir)
          THEN /\ dirs' = dirs \cup Ancestors(DestDir)
               /\ pc' = "readFile"
               /\ UNCHANGED <<messages, fsFailed>>
          ELSE /\ CaughtFsError
               /\ UNCHANGED dirs
    /\ calls' = calls \cup {"fs"}
    /\ UNCHANGED <<envVars, upsertVars, sideVars, files, pruneVars, bufVars, aiVars, userVars,
                   retryVars, cancelled, aiFailed>>

\* origContent: the in-memory text of an untitled document (part_001:278-280),
\* else await fs.readFile(doc.fileName, 'utf8')
ReadFile ==
    /\ pc = "readFile"
    /\ IF handler = "handleNote" /\ docFile = Untitled
       THEN /\ origContent' = docText
            /\ pc' = "writeFile"
            /\ UNCHANGED <<messages, fsFailed>>
       ELSE \E ok \in BOOLEAN :
               IF ok /\ docFile \in DOMAIN files
               THEN /\ origContent' = files[docFile]
                    /\ pc' = "writeFile"
                    /\ UNCHANGED <<messages, fsFailed>>
               ELSE /\ CaughtFsError
                    /\ UNCHANGED origContent
    /\ calls' = calls \cup {"fs"}
    /\ UNCHANGED <<envVars, upsertVars, sideVars, fsVars, pruneVars, docText, docDirty, aiVars,
                   userVars, retryVars, cancelled, aiFailed>>

\* part_001:293  if (!doc.isUntitled && !doc.isDirty && destPath !== doc.fileName)
DeletesSource == docFile # Untitled /\ ~docDirty /\ DestPath # docFile

\* src/src/extension.ts:231  if (destPath === doc.fileName) ... else
DeletesSource0 == DestPath # docFile

\* await fs.writeFile(destPath, newContent, 'utf8'), then the branch taken
WriteFile ==
    /\ pc = "writeFile"
    /\ \E ok \in BOOLEAN :
          IF ok /\ DestDir \in dirs /\ DestPath \notin dirs
          THEN /\ files' = WriteF(files, DestPath, NewContent(origContent, finalTags, reclassify))
               /\ pc' = IF (handler = "handleNote" /\ DeletesSource)
                           \/ (handler = "handleNote0" /\ DeletesSource0)
                        THEN "unlink" ELSE "returned"
               /\ UNCHANGED <<messages, fsFailed>>
          ELSE /\ CaughtFsError
               /\ UNCHANGED files
    /\ calls' = calls \cup {"fs"}
    /\ UNCHANGED <<envVars, upsertVars, sideVars, dirs, pruneVars, bufVars, aiVars, userVars,
                   retryVars, cancelled, aiFailed>>

\* await fs.unlink(doc.fileName), then removeEmptyDirsRecursively is entered
Unlink ==
    /\ pc = "unlink"
    /\ \E ok \in BOOLEAN :
          IF ok /\ docFile \in DOMAIN files
          THEN /\ files' = RemoveF(files, docFile)
               /\ dirs' = dirs
               /\ PruneEnter(Parent(docFile))
               /\ pc' = "prune"
               /\ UNCHANGED <<messages, fsFailed>>
          ELSE /\ CaughtFsError
               /\ UNCHANGED <<fsVars, startDir, curr, entries, prunePc, deleted, dirs0, files0>>
    /\ calls' = calls \cup {"fs"}
    /\ UNCHANGED <<envVars, upsertVars, sideVars, workspaceFolder, bufVars, aiVars, userVars,
                   retryVars, cancelled, aiFailed>>

\* removeEmptyDirsRecursively is over: when it returned, the handler goes on
\* and returns; when it threw, handleNote catches and reclassifyNote rejects
PruneReturn ==
    /\ pc = "prune"
    /\ prunePc \in {"done", "threw"}
    /\ IF prunePc = "done"
       THEN /\ pc' = "returned"
            /\ UNCHANGED <<messages, fsFailed>>
       ELSE IF IsNoteSaver
       THEN CaughtFsError
       ELSE /\ fsFailed' = TRUE
            /\ pc' = "rejected"
            /\ UNCHANGED messages
    /\ UNCHANGED <<envVars, upsertVars, sideVars, fsVars, pruneVars, bufVars, aiVars, userVars,
                   retryVars, cancelled, aiFailed, calls>>

-----------------------------------------------------------------------------
(* chatCompletionWithRetry (src/unnamed/part_004:103-113)                  *)

\* retries = 3, the default of the parameter; no caller passes another
retries == 3

\* a loop that runs once more
AttemptAllowed_OneMore(n) == n <= retries

\* for (let attempt = 0; attempt < retries; attempt++)
AttemptAllowed(n) == n < retries

\* chatCompletionWithRetry(prompt) is called
RetryEnter ==
    /\ retryPc' = "loop"
    /\ attempt' = 0
    /\ outcomes' = <<>>

\* one round of the loop: return await aiCompletion(prompt), or the catch
\* logs the failure and the loop goes on
RetryAttempt ==
    /\ retryPc = "loop"
    /\ AttemptAllowed(attempt)
    /\ \E ok \in BOOLEAN :
          /\ outcomes' = Append(outcomes, ok)
          /\ retryPc' = IF ok THEN "returned" ELSE "loop"
          /\ attempt' = IF ok THEN attempt ELSE attempt + 1
    /\ calls' = calls \cup {"ai"}
    /\ UNCHANGED <<envVars, upsertVars, sideVars, fsVars, pruneVars, pc, messages, bufVars, aiVars,
                   userVars, cancelled, aiFailed, fsFailed>>

\* the loop is over: throw new Error('All attempts to generate response failed.')
RetryGiveUp ==
    /\ retryPc = "loop"
    /\ ~AttemptAllowed(attempt)
    /\ retryPc' = "threw"
    /\ UNCHANGED <<envVars, upsertVars, sideVars, fsVars, pruneVars, pc, messages, bufVars, aiVars,
                   userVars, attempt, outcomes, histVars>>

-----------------------------------------------------------------------------
(* ai-notes: reclassifyNote, the save listener of newNote and              *)
(* promptUserForNoteMetadata (src/unnamed/part_000:50-150, 231-280)        *)

\* reclassifyNote up to the call of generateNoteMetadata
ReclassifyStart ==
    /\ pc = "start"
    /\ handler = "reclassifyNote"
    /\ IF workspaceFolder = Undefined \/ ~activeEditor
       THEN /\ pc' = "returned"
            /\ messages' = messages \cup {"error"}
            /\ UNCHANGED retryVars
       ELSE /\ pc' = "metadata"
            /\ messages' = messages
            /\ RetryEnter
    /\ calls' = IF workspaceFolder = Undefined \/ ~activeEditor THEN calls ELSE calls \cup {"fs"}
    /\ UNCHANGED <<envVars, upsertVars, sideVars, fsVars, pruneVars, bufVars, aiVars, userVars,
                   cancelled, aiFailed, fsFailed>>

\* the listener sees its draft saved: it disposes itself and asks the model
\* (generateNoteMetadata in part_000, generateTags in src/src/extension.ts)
ListenerStart ==
    /\ pc = "start"
    /\ IsListener
    /\ pc' = IF handler = "saveListener" THEN "metadata" ELSE "generateTags"
    /\ RetryEnter
    /\ calls' = calls \cup (IF handler = "saveListener" THEN {"fs"} ELSE {})
    /\ UNCHANGED <<envVars, upsertVars, sideVars, fsVars, pruneVars, messages, bufVars, aiVars,
                   userVars, cancelled, aiFailed, fsFailed>>

\* generateNoteMetadata returns or throws, and the caller tests the result:
\* if (!metadata || !metadata.tags || !metadata.name || !metadata.path)
Metadata ==
    /\ pc = "metadata"
    /\ retryPc \in {"returned", "threw"}
    /\ IF retryPc = "threw"
       THEN /\ aiFailed' = TRUE
            /\ pc' = "rejected"
            /\ UNCHANGED <<messages, aiVars>>
       ELSE \E tags \in TagsPool, path \in PathPool, name \in NamePool :
               /\ aiTags' = tags
               /\ aiPath' = path
               /\ aiName' = name
               /\ IF name = "" \/ path = <<>>
                  THEN /\ aiFailed' = TRUE
                       /\ pc' = "returned"
                       /\ messages' = messages \cup {"error"}
                  ELSE /\ pc' = "promptTags"
                       /\ UNCHANGED <<messages, aiFailed>>
    /\ UNCHANGED <<envVars, upsertVars, sideVars, fsVars, pruneVars, bufVars, userVars, retryVars,
                   cancelled, fsFailed, calls>>

\* promptUserForNoteMetadata, the tags: if (!tagInput) ... return undefined
PromptUserTags ==
    /\ pc = "promptTags"
    /\ IsAiNotes
    /\ \E answer \in InputAnswers({aiTags} \cup TypedTags, <<>>) :
          IF answer.given /\ answer.text # <<>>
          THEN /\ finalTags' = answer.text
               /\ pc' = "pick"
               /\ UNCHANGED <<messages, cancelled>>
          ELSE /\ cancelled' = (cancelled \/ ~answer.given)
               /\ messages' = messages \cup {"error"}
               /\ pc' = "returned"
               /\ UNCHANGED finalTags
    /\ UNCHANGED <<envVars, upsertVars, sideVars, fsVars, pruneVars, bufVars, aiVars, finalDir,
                   finalName, retryVars, aiFailed, fsFailed, calls>>

\* promptUserForNoteMetadata, the folder: if (!picked) ..., if (!manual) ...
PromptUserFolder ==
    /\ pc = "pick"
    /\ IsAiNotes
    /\ \/ /\ cancelled' = TRUE
          /\ messages' = messages \cup {"error"}
          /\ pc' = "returned"
          /\ UNCHANGED finalDir
       \/ /\ finalDir' = aiPath
          /\ pc' = "promptName"
          /\ UNCHANGED <<messages, cancelled>>
       \/ \E manual \in InputAnswers({aiPath} \cup TypedPaths, <<>>) :
             IF manual.given /\ manual.text # <<>>
             THEN /\ finalDir' = manual.text
                  /\ pc' = "promptName"
                  /\ UNCHANGED <<messages, cancelled>>
             ELSE /\ cancelled' = (cancelled \/ ~manual.given)
                  /\ messages' = messages \cup {"error"}
                  /\ pc' = "returned"
                  /\ UNCHANGED finalDir
    /\ UNCHANGED <<envVars, upsertVars, sideVars, fsVars, pruneVars, bufVars, aiVars, finalTags,
                   finalName, retryVars, aiFailed, fsFailed, calls>>

\* promptUserForNoteMetadata, the name: if (!finalName) ... return undefined
PromptUserName ==
    /\ pc = "promptName"
    /\ IsAiNotes
    /\ \E answer \in InputAnswers({aiName} \cup TypedNames, "") :
          IF answer.given /\ answer.text # ""
          THEN /\ finalName' = answer.text
               /\ pc' = IF handler = "reclassifyNote" THEN "upsert" ELSE "mkdir"
               /\ UNCHANGED <<messages, cancelled>>
          ELSE /\ cancelled' = (cancelled \/ ~answer.given)
               /\ messages' = messages \cup {"error"}
               /\ pc' = "returned"
               /\ UNCHANGED finalName
    /\ UNCHANGED <<envVars, upsertVars, sideVars, fsVars, pruneVars, bufVars, aiVars, finalTags,
                   finalDir, retryVars, aiFailed, fsFailed, calls>>

\* await vscode.workspace.applyEdit(edit); await doc.save(): the text in the
\* editor becomes newText; save() writes it to the document's file, or
\* resolves to false (it does not throw) and leaves the document dirty
EditAndSave(newText) ==
    /\ docText' = newText
    /\ \E saved \in BOOLEAN :
          IF saved /\ docFile \in DOMAIN files
          THEN /\ files' = WriteF(files, docFile, newText)
               /\ docDirty' = FALSE
               /\ fsFailed' = fsFailed
          ELSE /\ files' = files
               /\ docDirty' = TRUE
               /\ fsFailed' = TRUE

\* await upsertFrontmatterKey(doc, 'tags', tags)   (part_000:132)
UpsertTags ==
    /\ pc = "upsert"
    /\ EditAndSave(upsertFrontmatterKeys(docText,
                      <<[key |-> TagsKey, value |-> ArrayValue(finalTags)]>>))
    /\ pc' = "mkdir"
    /\ calls' = calls \cup {"fs"}
    /\ UNCHANGED <<envVars, upsertVars, sideVars, dirs, pruneVars, messages, origContent, aiVars,
                   userVars, retryVars, cancelled, aiFailed>>

\* if (!fs.existsSync(directory)) fs.mkdirSync(directory, { recursive: true })
MkdirSync ==
    /\ pc = "mkdir"
    /\ ~IsNoteSaver
    /\ IF DestDir \in dirs \cup DOMAIN files
       THEN /\ pc' = IF handler = "saveListener" THEN "insertYaml" ELSE "rename"
            /\ UNCHANGED <<dirs, fsFailed>>
       ELSE \E ok \in BOOLEAN :
               IF ok /\ CanMkdir(DestDir)
               THEN /\ dirs' = dirs \cup Ancestors(DestDir)
                    /\ pc' = IF handler = "saveListener" THEN "insertYaml" ELSE "rename"
                    /\ UNCHANGED fsFailed
               ELSE /\ fsFailed' = TRUE
                    /\ pc' = "rejected"
                    /\ UNCHANGED dirs
    /\ calls' = calls \cup {"fs"}
    /\ UNCHANGED <<envVars, upsertVars, sideVars, files, pruneVars, messages, bufVars, aiVars,
                   userVars, retryVars, cancelled, aiFailed>>

\* edit.insert(savedDoc.uri, new vscode.Position(0, 0), yaml), applyEdit, save
\* (part_000:80-84; getTags of src/src/extension.ts:603-609)
InsertYaml ==
    /\ pc = "insertYaml"
    /\ EditAndSave(YamlHeader(finalTags) \o docText)
    /\ IF handler = "saveListener"
       THEN pc' = "rename" /\ UNCHANGED retryVars
       ELSE pc' = "generatePath" /\ RetryEnter
    /\ calls' = calls \cup {"fs"}
    /\ UNCHANGED <<envVars, upsertVars, sideVars, dirs, pruneVars, messages, origContent, aiVars,
                   userVars, cancelled, aiFailed>>

\* a rename that replaces what is at the target
TargetExists_Ignored == FALSE

\* { overwrite: false }: something is at the target path
TargetExists == DestPath \in dirs \cup DOMAIN files

\* await vscode.workspace.fs.rename(doc.uri, newFileUri, { overwrite: false }):
\* rejects when the target exists; then showTextDocument, and reclassifyNote
\* enters removeEmptyDirsRecursively(path.dirname(doc.uri.fsPath))
Rename ==
    /\ pc = "rename"
    /\ \E ok \in BOOLEAN :
          IF /\ ok
             /\ docFile \in DOMAIN files
             /\ DestDir \in dirs
             /\ ~TargetExists
          THEN /\ files' = WriteF(RemoveF(files, docFile), DestPath, files[docFile])
               /\ dirs' = dirs
               /\ IF handler = "reclassifyNote"
                  THEN pc' = "prune" /\ PruneEnter(Parent(docFile))
                  ELSE /\ pc' = "returned"
                       /\ UNCHANGED <<startDir, curr, entries, prunePc, deleted, dirs0, files0>>
               /\ UNCHANGED fsFailed
          ELSE /\ fsFailed' = TRUE
               /\ pc' = "rejected"
               /\ UNCHANGED <<fsVars, startDir, curr, entries, prunePc, deleted, dirs0, files0>>
    /\ calls' = calls \cup {"fs"}
    /\ UNCHANGED <<envVars, upsertVars, sideVars, workspaceFolder, messages, bufVars, aiVars,
                   userVars, retryVars, cancelled, aiFailed>>

-----------------------------------------------------------------------------
(* The save listener of src/src/extension.ts:551-632: getTags, getPath,    *)
(* generateName                                                            *)

\* generateTags (part_004:134-158): a failure is caught, warned about and
\* answered with []; getTags prompts only for a non-empty suggestion
GenerateTags ==
    /\ pc = "generateTags"
    /\ retryPc \in {"returned", "threw"}
    /\ IF retryPc = "threw"
       THEN /\ aiFailed' = TRUE
            /\ messages' = messages \cup {"warning"}
            /\ aiTags' = <<>>
            /\ pc' = "generatePath"
            /\ RetryEnter
       ELSE \E tags \in TagsPool :
               /\ aiTags' = tags
               /\ UNCHANGED <<messages, aiFailed>>
               /\ IF tags # <<>>
                  THEN pc' = "promptTags" /\ UNCHANGED retryVars
                  ELSE pc' = "generatePath" /\ RetryEnter
    /\ UNCHANGED <<envVars, upsertVars, sideVars, fsVars, pruneVars, bufVars, aiPath, aiName,
                   userVars, cancelled, fsFailed, calls>>

\* getTags: if (tagInput) selectedTags = ...; the frontmatter is written only
\* if (selectedTags.length > 0)
GetTagsPrompt ==
    /\ pc = "promptTags"
    /\ handler = "saveListener0"
    /\ \E answer \in InputAnswers({aiTags} \cup TypedTags, <<>>) :
          /\ finalTags' = answer.text
          /\ cancelled' = (cancelled \/ ~answer.given)
          /\ IF answer.text # <<>>
             THEN pc' = "insertYaml" /\ UNCHANGED retryVars
             ELSE pc' = "generatePath" /\ RetryEnter
    /\ UNCHANGED <<envVars, upsertVars, sideVars, fsVars, pruneVars, messages, bufVars, aiVars,
                   finalDir, finalName, aiFailed, fsFailed, calls>>

\* generatePath (part_004:160-166) returns the cleaned path, or throws
GeneratePath ==
    /\ pc = "generatePath"
    /\ retryPc \in {"returned", "threw"}
    /\ IF retryPc = "threw"
       THEN /\ aiFailed' = TRUE
            /\ pc' = "rejected"
            /\ UNCHANGED aiPath
       ELSE \E raw \in PathPool :
               /\ aiPath' = SanitizePath(raw)
               /\ pc' = "pick"
               /\ UNCHANGED aiFailed
    /\ calls' = calls \cup {"fs"}
    /\ UNCHANGED <<envVars, upsertVars, sideVars, fsVars, pruneVars, messages, bufVars, aiTags,
                   aiName, userVars, retryVars, cancelled, fsFailed>>

\* getPath: if (!picked) return aiPath; manual?.trim() || aiPath; then
\* generateName(selectedTags) is called
GetPathPick ==
    /\ pc = "pick"
    /\ handler = "saveListener0"
    /\ \/ /\ finalDir' = aiPath
          /\ cancelled' = TRUE
       \/ /\ aiPath # <<>>
          /\ finalDir' = aiPath
          /\ cancelled' = cancelled
       \/ \E manual \in InputAnswers(TypedPaths, <<>>) :
             /\ finalDir' = IF manual.text # <<>> THEN manual.text ELSE aiPath
             /\ cancelled' = (cancelled \/ ~manual.given)
    /\ pc' = "generateName"
    /\ RetryEnter
    /\ UNCHANGED <<envVars, upsertVars, sideVars, fsVars, pruneVars, messages, bufVars, aiVars,
                   finalTags, finalName, aiFailed, fsFailed, calls>>

\* generateName (part_004:115-127) returns the answer, or throws
GenerateName ==
    /\ pc = "generateName"
    /\ retryPc \in {"returned", "threw"}
    /\ IF retryPc = "threw"
       THEN /\ aiFailed' = TRUE
            /\ pc' = "rejected"
            /\ UNCHANGED aiName
       ELSE \E name \in NamePool :
               /\ aiName' = name
               /\ pc' = "promptName"
               /\ UNCHANGED aiFailed
    /\ UNCHANGED <<envVars, upsertVars, sideVars, fsVars, pruneVars, messages, bufVars, aiTags,
                   aiPath, userVars, retryVars, cancelled, fsFailed, calls>>

\* 'Suggested note name': the answer is used as it is; a dismissed prompt
\* gives `${undefined}_${formattedDate}.md`
NamePrompt ==
    /\ pc = "promptName"
    /\ handler = "saveListener0"
    /\ \E answer \in InputAnswers({aiName} \cup TypedNames, "undefined") :
          /\ finalName' = answer.text
          /\ cancelled' = (cancelled \/ ~answer.given)
    /\ pc' = "mkdir"
    /\ UNCHANGED <<envVars, upsertVars, sideVars, fsVars, pruneVars, messages, bufVars, aiVars,
                   finalTags, finalDir, retryVars, aiFailed, fsFailed, calls>>

-----------------------------------------------------------------------------
(* SpecNotes: one run of one handler, from every note and tree of the model *)

NextNotes ==
    \/ HandleNoteStart \/ ExtractTags \/ GenerateRelPath \/ PickFolder \/ GenerateSlug
    \/ PromptTags \/ PromptRelPath \/ PromptFileName
    \/ MkdirDest \/ ReadFile \/ WriteFile \/ Unlink
    \/ PruneStep \/ PruneReturn
    \/ RetryAttempt \/ RetryGiveUp
    \/ ReclassifyStart \/ ListenerStart \/ Metadata
    \/ PromptUserTags \/ PromptUserFolder \/ PromptUserName
    \/ UpsertTags \/ MkdirSync \/ InsertYaml \/ Rename
    \/ GenerateTags \/ GetTagsPrompt \/ GeneratePath \/ GetPathPick \/ GenerateName
    \/ NamePrompt

SpecNotes == InitNotes /\ [][NextNotes]_vars

-----------------------------------------------------------------------------
(* SpecMatch: the scoring and ranking of generateRelPath                   *)
(* (src/unnamed/part_001:184-199), for every list of folders and every     *)
(* suggestion of the model                                                 *)

\* the longest list of existing folders
MaxFolders == 4

\* the folders a scan may return: path.join(prefix, entry.name)
FolderPool ==
    { <<"proj">>, <<"proj", "notes">>, <<"proj", "ideas">>, <<"personal", "journal">>,
      <<"proj", "notes", "archive">>, <<"Proj", "my_notes">>, <<"proj", "My-Notes">> }

\* the suggestions: what SanitizePath leaves of an answer, '' included
SuggestionPool == {SanitizePath(f) : f \in FolderPool} \cup {<<>>}

RECURSIVE FolderLists(_)
FolderLists(n) ==
    IF n = 0 THEN {<<>>}
    ELSE LET shorter == FolderLists(n - 1)
         IN  shorter \cup {Append(fs, f) : fs \in {l \in shorter : Len(l) = n - 1},
                                          f \in FolderPool}

InitMatch ==
    /\ UpsertIdle
    /\ FsIdle
    /\ PruneIdle
    /\ NotesIdle
    /\ ScanIdle
    /\ SessionIdle
    /\ ListenIdle
    /\ existingFolders \in FolderLists(MaxFolders)
    /\ suggestion \in SuggestionPool
    /\ folderScores = <<>>
    /\ ranked = <<>>
    /\ matchPc = "input"

\* folderScores = existingFolders.map(...); sort; topMatches = filter, slice
Rank ==
    /\ matchPc = "input"
    /\ folderScores' = [i \in 1..Len(existingFolders) |->
                           similarity(existingFolders[i], suggestion)]
    /\ ranked' = topMatches(existingFolders, suggestion)
    /\ matchPc' = "ranked"
    /\ UNCHANGED <<upsertVars, fsVars, pruneVars, noteVars, scanVars, procs, listenVars,
                   existingFolders, suggestion>>

NextMatch == Rank

SpecMatch == InitMatch /\ [][NextMatch]_vars

-----------------------------------------------------------------------------
(* SpecScan: getAllFolders (src/src/files.ts:4-18, the same function as     *)
(* src/unnamed/part_001:155-170), for every tree below the root, every set  *)
(* of directories whose listing rejects and every depth                     *)

\* the largest depth a scan is called with (the default of the code)
MaxScanDepth == 3

\* the root of the scan
ScanRoot == WS

\* the directories and files below the root
ScanDirs  == {d \in DirUniverse : Len(d) >= 1 /\ d[1] = "ws"}
ScanFiles == {d \o <<"f.md">> : d \in ScanDirs}

InitScan ==
    /\ UpsertIdle
    /\ PruneIdle
    /\ MatchIdle
    /\ SessionIdle
    /\ ListenIdle
    /\ dirs \in {ds \in SUBSET DirUniverse :
                    {Root, SysDir, WS} \subseteq ds /\ ds \ {Root, SysDir} \subseteq ScanDirs}
    /\ \E fset \in SUBSET ScanFiles : files = [f \in fset |-> <<>>]
    /\ WellFormedFs(dirs, files)
    /\ NotesIdle
    /\ unreadable \in SUBSET (dirs \cap ScanDirs)
    /\ scanDepth \in 0..MaxScanDepth
    /\ scanned = <<>>
    /\ scanPc = "input"

\* await getAllFolders(root, depth)
Scan ==
    /\ scanPc = "input"
    /\ scanned' = getAllFolders(ScanRoot, scanDepth, <<>>)
    /\ scanPc' = "done"
    /\ UNCHANGED <<upsertVars, fsVars, pruneVars, noteVars, matchVars, procs, listenVars,
                   unreadable, scanDepth>>

NextScan == Scan

SpecScan == InitScan /\ [][NextScan]_vars

-----------------------------------------------------------------------------
(* SpecSession: the commands registered by activate                         *)
(* (src/unnamed/part_001:15-21) invoked more than once in one session: each *)
(* invocation is a call of handleNote that runs from await to await, on the *)
(* one file system                                                          *)

\* the number of invocations
MaxInvocations == 2

Invocations == 1..MaxInvocations

\* the saved notes an invocation may find in the active editor
SessionDocs == { <<"ws", "n">>, <<"ws", "a", "n">> }

\* the folders the user may confirm, relative to the workspace folder
SessionDirs == { <<>>, <<"c">> }

\* the file name the user confirms
SessionName == "m"

NotInvoked == [pc |-> "idle", doc |-> Untitled, dest |-> <<>>, text |-> <<>>]

InitSession ==
    /\ UpsertIdle
    /\ PruneIdle
    /\ MatchIdle
    /\ ScanIdle
    /\ ListenIdle
    /\ dirs = {Root, SysDir, WS, <<"ws", "a">>}
    /\ files = [f \in SessionDocs |-> <<"#", " ", "T">>]
    /\ NotesIdle
    /\ procs = [p \in Invocations |-> NotInvoked]

\* procs with invocation p at step pc
At(p, step) == [procs EXCEPT ![p].pc = step]

SessionFrame == UNCHANGED <<upsertVars, pruneVars, noteVars, matchVars, scanVars, listenVars>>

\* the command is run: handleNote takes the document of the active editor
\* and awaits the first request
Invoke ==
    \E p \in Invocations, d \in SessionDocs :
        /\ procs[p].pc = "idle"
        /\ d \in DOMAIN files
        /\ procs' = [procs EXCEPT ![p] = [pc |-> "ai", doc |-> d, dest |-> <<>>, text |-> <<>>]]
        /\ UNCHANGED fsVars
        /\ SessionFrame

\* extractTags, generateRelPath and generateSlug resolve and the input box
\* is shown, or one of them rejects and the catch of handleNote ends the
\* invocation.  The editor shows one input box at a time: the box of another
\* invocation is hidden and resolves to undefined, which ends that invocation
\* ('operation cancelled').
Suggested ==
    \E p \in Invocations, ok \in BOOLEAN :
        /\ procs[p].pc = "ai"
        /\ procs' = [q \in Invocations |->
                        IF q = p
                        THEN [procs[q] EXCEPT !.pc = IF ok THEN "prompt" ELSE "done"]
                        ELSE IF ok /\ procs[q].pc = "prompt"
                        THEN [procs[q] EXCEPT !.pc = "done"]
                        ELSE procs[q]]
        /\ UNCHANGED fsVars
        /\ SessionFrame

\* the prompts are answered: a folder and a name, or a dismissal
Answered ==
    \E p \in Invocations :
        /\ procs[p].pc = "prompt"
        /\ \/ procs' = At(p, "done")
           \/ \E dir \in SessionDirs :
                 procs' = [procs EXCEPT ![p].pc = "mkdir",
                                        ![p].dest = WS \o dir \o <<SessionName>>]
        /\ UNCHANGED fsVars
        /\ SessionFrame

\* await fs.mkdir(destDir, { recursive: true })
SessionMkdir ==
    \E p \in Invocations :
        /\ procs[p].pc = "mkdir"
        /\ IF CanMkdir(Parent(procs[p].dest))
           THEN /\ dirs' = dirs \cup Ancestors(Parent(procs[p].dest))
                /\ procs' = At(p, "readFile")
           ELSE /\ dirs' = dirs
                /\ procs' = At(p, "done")
        /\ UNCHANGED files
        /\ SessionFrame

\* origContent = await fs.readFile(doc.fileName, 'utf8'): rejects when the
\* file is gone
SessionReadFile ==
    \E p \in Invocations :
        /\ procs[p].pc = "readFile"
        /\ IF procs[p].doc \in DOMAIN files
           THEN procs' = [procs EXCEPT ![p].pc = "writeFile",
                                       ![p].text = files[procs[p].doc]]
           ELSE procs' = At(p, "done")
        /\ UNCHANGED fsVars
        /\ SessionFrame

\* await fs.writeFile(destPath, newContent, 'utf8'), then the test for the
\* source: the document is saved and clean
SessionWriteFile ==
    \E p \in Invocations :
        /\ procs[p].pc = "writeFile"
        /\ IF Parent(procs[p].dest) \in dirs /\ procs[p].dest \notin dirs
           THEN /\ files' = WriteF(files, procs[p].dest,
                                   NewContent(procs[p].text, <<>>, FALSE))
                /\ procs' = At(p, IF procs[p].dest # procs[p].doc THEN "unlink" ELSE "done")
           ELSE /\ files' = files
                /\ procs' = At(p, "done")
        /\ UNCHANGED dirs
        /\ SessionFrame

RECURSIVE Pruned(_, _, _)
\* the directories left by removeEmptyDirsRecursively(d) in file system
\* (ds, fs), with the workspace folder WS as boundary
Pruned(ds, fs, d) ==
    IF d = WS \/ d \notin ds \/ EntriesIn(ds, fs, d) # {} \/ d = Root THEN ds
    ELSE Pruned(ds \ {d}, fs, Parent(d))

\* await fs.unlink(doc.fileName), which rejects when the file is gone, then
\* await removeEmptyDirsRecursively(path.dirname(doc.fileName))
SessionUnlink ==
    \E p \in Invocations :
        /\ procs[p].pc = "unlink"
        /\ IF procs[p].doc \in DOMAIN files
           THEN /\ files' = RemoveF(files, procs[p].doc)
                /\ dirs' = Pruned(dirs, files', Parent(procs[p].doc))
           ELSE UNCHANGED fsVars
        /\ procs' = At(p, "done")
        /\ SessionFrame

NextSession ==
    \/ Invoke \/ Suggested \/ Answered
    \/ SessionMkdir \/ SessionReadFile \/ SessionWriteFile \/ SessionUnlink

SpecSession == InitSession /\ [][NextSession]_vars

-----------------------------------------------------------------------------
(* SpecListen: the listeners that ai-notes.newNote subscribes to            *)
(* onDidSaveTextDocument (src/unnamed/part_000:28-90, the same code as      *)
(* src/src/extension.ts:310-351), one per draft, and the saves of a session *)

\* the number of saves in a session
MaxSaves == 4

\* the drafts that newNote may create, by filePath, and another document
Drafts    == {"d1", "d2"}
OtherDoc  == "o"
Documents == Drafts \cup {OtherDoc}

InitListen ==
    /\ UpsertIdle
    /\ FsIdle
    /\ PruneIdle
    /\ NotesIdle
    /\ MatchIdle
    /\ ScanIdle
    /\ SessionIdle
    /\ listeners = [d \in Drafts |-> "none"]
    /\ runs = [d \in Drafts |-> 0]
    /\ stage = [d \in Drafts |-> "idle"]
    /\ triggeredBy = [d \in Drafts |-> {}]
    /\ saveCount = [document \in Documents |-> 0]

ListenFrame ==
    UNCHANGED <<upsertVars, fsVars, pruneVars, noteVars, matchVars, scanVars, procs>>

TotalSaves == saveCount["d1"] + saveCount["d2"] + saveCount[OtherDoc]

\* a listener that stays subscribed
AfterDispose_Kept == "subscribed"

\* saveListener.dispose()
AfterDispose == "disposed"

\* if (savedDoc.uri.fsPath === filePath)
SamePath(savedDoc, filePath) == savedDoc = filePath

\* the listeners whose body runs for a save of savedDoc
Triggered(savedDoc) ==
    {d \in Drafts : listeners[d] = "subscribed" /\ SamePath(savedDoc, d)}

\* onDidSaveTextDocument fires for savedDoc: every subscribed listener is
\* called, and one whose path test holds disposes itself and begins its run
Deliver(savedDoc) ==
    /\ saveCount' = [saveCount EXCEPT ![savedDoc] = @ + 1]
    /\ listeners' = [d \in Drafts |->
                        IF d \in Triggered(savedDoc) THEN AfterDispose ELSE listeners[d]]
    /\ runs' = [d \in Drafts |->
                   IF d \in Triggered(savedDoc) THEN runs[d] + 1 ELSE runs[d]]
    /\ triggeredBy' = [d \in Drafts |->
                          IF d \in Triggered(savedDoc) THEN triggeredBy[d] \cup {savedDoc}
                          ELSE triggeredBy[d]]

\* ai-notes.newNote: the draft is written and shown, its listener subscribed
NewNote ==
    \E d \in Drafts :
        /\ listeners[d] = "none"
        /\ listeners' = [listeners EXCEPT ![d] = "subscribed"]
        /\ UNCHANGED <<runs, stage, triggeredBy, saveCount>>
        /\ ListenFrame

\* the draft is at its path: created and not renamed
DraftExists(d) == listeners[d] # "none" /\ stage[d] # "succeeded"

\* the user saves a document
Save ==
    \E savedDoc \in Documents :
        /\ TotalSaves < MaxSaves
        /\ savedDoc \in Drafts => DraftExists(savedDoc)
        /\ Deliver(savedDoc)
        /\ stage' = [d \in Drafts |->
                        IF d \in Triggered(savedDoc) THEN "categorizing" ELSE stage[d]]
        /\ ListenFrame

\* generateNoteMetadata resolves with usable metadata, or not
Categorized ==
    \E d \in Drafts, ok \in BOOLEAN :
        /\ stage[d] = "categorizing"
        /\ stage' = [stage EXCEPT ![d] = IF ok THEN "prompting" ELSE "failed"]
        /\ UNCHANGED <<listeners, runs, triggeredBy, saveCount>>
        /\ ListenFrame

\* promptUserForNoteMetadata resolves with the user's metadata, or undefined
Prompted ==
    \E d \in Drafts, confirmed \in BOOLEAN :
        /\ stage[d] = "prompting"
        /\ stage' = [stage EXCEPT ![d] = IF confirmed THEN "relocating" ELSE "cancelled"]
        /\ UNCHANGED <<listeners, runs, triggeredBy, saveCount>>
        /\ ListenFrame

\* the yaml is inserted and savedDoc.save() saves the draft, which fires
\* onDidSaveTextDocument for its path; then rename resolves or rejects
Relocated ==
    \E d \in Drafts, renamed \in BOOLEAN :
        /\ stage[d] = "relocating"
        /\ TotalSaves < MaxSaves
        /\ Deliver(d)
        /\ stage' = [x \in Drafts |->
                        IF x \in Triggered(d) THEN "categorizing"
                        ELSE IF x = d THEN (IF renamed THEN "succeeded" ELSE "failed")
                        ELSE stage[x]]
        /\ ListenFrame

NextListen == NewNote \/ Save \/ Categorized \/ Prompted \/ Relocated

SpecListen == InitListen /\ [][NextListen]_vars

-----------------------------------------------------------------------------
(* SpecTagFlow: a draft that the listener of ai-notes.newNote tags          *)
(* (src/unnamed/part_000:79-84) and that ai-notes.reclassifyNote tags again *)
(* (part_000:132), as far as the text of the note goes                      *)

\* longest draft, in lines
MaxDraftLines == 3

\* how often the note is reclassified
MaxReclassify == 2

DraftPool == {JoinLines(ls) : ls \in LineSeqs(MaxDraftLines)}

\* the tags the user may confirm
FlowTags == TagsPool \cup TypedTags

\* { tags: tags }
TagsMapping(tags) == <<[key |-> TagsKey, value |-> ArrayValue(tags)]>>

InitTagFlow ==
    /\ FsIdle
    /\ PruneIdle
    /\ NotesIdle
    /\ SideIdle
    /\ doc \in DraftPool
    /\ keyValues = <<>>
    /\ orig = doc
    /\ prev = doc
    /\ applied = 0

\* the listener: edit.insert(savedDoc.uri, new vscode.Position(0, 0), yaml)
CreateTagged ==
    /\ applied = 0
    /\ \E tags \in FlowTags :
          /\ keyValues' = TagsMapping(tags)
          /\ doc' = YamlHeader(tags) \o doc
    /\ prev' = doc
    /\ applied' = 1
    /\ UNCHANGED <<orig, fsVars, pruneVars, noteVars, sideVars>>

\* reclassifyNote: await upsertFrontmatterKey(doc, 'tags', tags)
ReclassifyTagged ==
    /\ applied >= 1
    /\ applied <= MaxReclassify
    /\ \E tags \in FlowTags :
          /\ keyValues' = TagsMapping(tags)
          /\ doc' = upsertFrontmatterKeys(doc, TagsMapping(tags))
    /\ prev' = doc
    /\ applied' = applied + 1
    /\ UNCHANGED <<orig, fsVars, pruneVars, noteVars, sideVars>>

NextTagFlow == CreateTagged \/ ReclassifyTagged

SpecTagFlow == InitTagFlow /\ [][NextTagFlow]_vars

-----------------------------------------------------------------------------
(* Properties of the frontmatter editor, under SpecUpsert *)

\* the text the regular expression matched: existingYamlMatch[0]
MatchedBlock(content) == SubSeq(content, 1, YamlMatchLen(content))

\* the lines of the matched block, without the empty piece after a final "\n"
BlockLines(content) ==
    LET ls == Split(MatchedBlock(content))
    IN  IF ls[Len(ls)] = <<>> THEN SubSeq(ls, 1, Len(ls) - 1) ELSE ls

\* the block ends with a line that is exactly ---
ClosedByOwnLine(content) ==
    /\ YamlMatchLen(content) > 0
    /\ BlockLines(content)[Len(BlockLines(content))] = Dashes

\* the lines between the opening and the closing delimiter
BodyLines(content) == SubSeq(BlockLines(content), 2, Len(BlockLines(content)) - 1)

LineHasKey(line, key) == KeyOf(Trim(line)) = key

\* the content has a frontmatter block one of whose lines carries the key
BlockContainsKey(content, key) ==
    /\ ClosedByOwnLine(content)
    /\ \E i \in 1..Len(BodyLines(content)) : LineHasKey(BodyLines(content)[i], key)

\* a single-key mapping {K: v2} was upserted into a block that contains K
UpsertedOneExistingKey ==
    /\ applied >= 1
    /\ Len(keyValues) = 1
    /\ BlockContainsKey(prev, keyValues[1].key)

\* same number of lines; K's lines carry v2; every other line is unchanged
SameBlockButKey ==
    LET before == BodyLines(prev)
        after  == BodyLines(doc)
    IN  /\ ClosedByOwnLine(doc)
        /\ Len(after) = Len(before)
        /\ \A i \in 1..Len(before) :
              after[i] = IF LineHasKey(before[i], keyValues[1].key)
                         THEN RenderLine(keyValues[1].key, keyValues[1].value)
                         ELSE before[i]

\* no line of the block is blank, and none has a key that names a member
\* inherited from Object.prototype
PlainBody(content) ==
    \A i \in 1..Len(BodyLines(content)) :
        /\ Trim(BodyLines(content)[i]) # <<>>
        /\ KeyOf(Trim(BodyLines(content)[i])) \notin InheritedNames

\* the rendered keys of the mapping, in mapping order, one per line
RenderedKeys == JoinLines([i \in 1..Len(keyValues) |->
                              RenderLine(keyValues[i].key, keyValues[i].value)])

\* "# Title\n\nBody" with {tags: [x, y]} gives "---\ntags: [x, y]\n---\n# Title\n\nBody"
ScenarioNoBlock ==
    upsertFrontmatterKeys(
        <<"#", " ", "Title", NL, NL, "Body">>,
        <<[key |-> TagsKey, value |-> ArrayValue(<< <<"x">>, <<"y">> >>)]>>)
    = <<"-", "-", "-", NL, "tags", ":", " ", "[", "x", ",", " ", "y", "]", NL,
        "-", "-", "-", NL, "#", " ", "Title", NL, NL, "Body">>

C3_Idempotent == applied = 2 => doc = prev

-----------------------------------------------------------------------------
(* Properties of the directory pruner, under SpecPrune *)

RECURSIVE EmptiedChain(_, _)
\* The directories, from d upward, that stand empty in the file system the
\* call started with once the directory below them (child) is gone, up to the
\* first one that holds something else or is the boundary.
EmptiedChain(d, child) ==
    IF \/ d = workspaceFolder
       \/ d = Root
       \/ d \notin dirs0
       \/ EntriesIn(dirs0, files0, d) \ {child} # {}
    THEN {}
    ELSE {d} \cup EmptiedChain(Parent(d), d)

\* C4: no step of removeEmptyDirsRecursively removes the workspace folder
\* (the root boundary), and every directory a step removes has no entry at
\* that moment.
C4_NeverDeletesBoundaryOrNonEmpty ==
    [][\A d \in dirs \ dirs' : d # workspaceFolder /\ Entries(d) = {}]_vars

\* C4 witness: a call that removed two directories and stopped at the
\* workspace folder.
C4_Witness ==
    /\ prunePc = "done"
    /\ workspaceFolder = WS
    /\ curr = WS
    /\ Cardinality(deleted) = 2

\* C5: when the call returns, exactly the directories of the chain from
\* startDir upward, up to but not including the first non-empty ancestor or
\* the boundary, are gone; for an empty startDir one level below the boundary
\* that is one directory, and the boundary remains.
C5_ChainGoneWhenDone ==
    prunePc = "done" =>
        /\ deleted = EmptiedChain(startDir, Undefined)
        /\ dirs = dirs0 \ EmptiedChain(startDir, Undefined)
        /\ files = files0
        /\ (/\ startDir \in dirs0
            /\ EntriesIn(dirs0, files0, startDir) = {}
            /\ Parent(startDir) = workspaceFolder)
           => (Cardinality(deleted) = 1 /\ workspaceFolder \in dirs)

\* C5 witness: startDir was empty, one level below a boundary that holds
\* something else; the call returned.
C5_Witness ==
    /\ prunePc = "done"
    /\ startDir \in dirs0 \ dirs
    /\ Parent(startDir) = workspaceFolder
    /\ Entries(workspaceFolder) # {}
    /\ Cardinality(deleted) = 1

-----------------------------------------------------------------------------
(* Properties of the handlers, under SpecNotes *)

\* the handler is over: it returned, or its promise was rejected
Over == pc \in {"returned", "rejected"}

\* the file system is as the handler found it
FsUntouched == <<dirs, files>> = fsStart

\* the user was shown an error or a warning, or the rejected command is
\* reported by the host (the rejection of an event listener is only logged)
UserWasTold ==
    \/ messages \cap {"error", "warning"} # {}
    \/ (pc = "rejected" /\ handler = "reclassifyNote")

\* C6: moveAndTagFile deletes a file or a directory only when the source path
\* differs from the destination path and the source document is saved on disk
\* and has no unsaved changes; for an untitled or dirty source nothing is
\* deleted.
C6_DeletesOnlySavedCleanSource ==
    [][(IsNoteSaver /\ ((DOMAIN files) \ (DOMAIN files') # {} \/ dirs \ dirs' # {}))
          => (docFile # Untitled /\ ~docDirty /\ DestPath # docFile)]_vars

\* C7: once the user has dismissed a prompt of the operation, the operation
\* is over and the file system is as it was when the operation started: no
\* directory created, no note rewritten, no file written, renamed or deleted.
C7_CancelAbortsBeforeMutation == cancelled => (Over /\ FsUntouched)

\* C8: once a suggestion call has failed (it threw after its retries, or gave
\* metadata without a usable name or path), the relocation is over, the user
\* was told, and the file system is as it was when the relocation started.
C8_AiFailureAbortsUntouched == aiFailed => (Over /\ UserWasTold /\ FsUntouched)

\* C9: once a file-system step has failed, the operation is over and no file
\* differs from what it was: the note is not rewritten, moved or copied.
C9_FsFailureLeavesNoteUntouched == fsFailed => (Over /\ files = fsStart[2])

\* C10: chatCompletionWithRetry makes at most 3 attempts, no attempt follows
\* a successful one, it has returned exactly when its latest attempt
\* succeeded, and it has thrown only after 3 failed attempts.
C10_AtMostThreeAttempts ==
    /\ Len(outcomes) <= 3
    /\ \A i \in 1..(Len(outcomes) - 1) : ~outcomes[i]
    /\ (retryPc = "returned") <=> (outcomes # <<>> /\ outcomes[Len(outcomes)])
    /\ (retryPc = "threw") => (outcomes = <<FALSE, FALSE, FALSE>>)
    /\ (outcomes = <<FALSE, FALSE, FALSE>>) => (retryPc \in {"loop", "threw"})

\* the third attempt succeeded and its response was returned
C10_Witness == retryPc = "returned" /\ outcomes = <<FALSE, FALSE, TRUE>>

-----------------------------------------------------------------------------
(* Properties of the path matcher, under SpecMatch *)

\* the spellings of one segment that differ only in case or in "_" for "-"
Spellings == { {"proj", "Proj"}, {"my-notes", "my_notes", "My-Notes"} }

SameSegment(x, y) == x = y \/ \E c \in Spellings : x \in c /\ y \in c

RECURSIVE Leading(_, _)
\* the number of leading segments that are the same in both paths
Leading(a, b) ==
    IF a = <<>> \/ b = <<>> THEN 0
    ELSE IF SameSegment(a[1], b[1]) THEN 1 + Leading(Tail(a), Tail(b))
    ELSE 0

Distance(m, n) == IF m < n THEN n - m ELSE m - n

\* 2 x leading - | difference of the segment counts |
ScoreOf(a, b) == 2 * Leading(a, b) - Distance(Len(a), Len(b))

\* the segments of a path as split gives them: the empty path is one empty segment
Segments(path) == IF path = <<>> THEN <<"">> ELSE path

Scored == matchPc = "ranked"

\* C11 as stated: the score of every folder is 2 times the number of leading
\* segments equal in folder and suggestion, after normalization, minus the
\* absolute difference of the two segment counts.
C11_Original ==
    Scored => \A i \in 1..Len(existingFolders) :
                 folderScores[i] = ScoreOf(existingFolders[i], suggestion)

\* C11: the same, where the empty path counts as one empty segment.
C11_ScoreWithEmptySegment ==
    Scored => \A i \in 1..Len(existingFolders) :
                 folderScores[i] = ScoreOf(Segments(existingFolders[i]), Segments(suggestion))

\* two segments that agree only after normalization, and a third that is extra
C11_Witness ==
    /\ Scored
    /\ existingFolders = << <<"Proj", "my_notes">>, <<"proj", "notes", "archive">> >>
    /\ suggestion = <<"proj", "My-Notes">>
    /\ folderScores = <<4, 1>>

\* the indices of the folders with a score above 0
Positive == {i \in 1..Len(existingFolders) : folderScores[i] > 0}

\* the place of folder i among them: after every higher score, and after
\* every equal score the scanner returned earlier
PlaceOf(i) ==
    1 + Cardinality({j \in Positive : \/ folderScores[j] > folderScores[i]
                                      \/ (folderScores[j] = folderScores[i] /\ j < i)})

\* C12: the ranking holds exactly the folders with a score above 0, by
\* descending score, equal scores in the scanner's order, cut to the first 3.
C12_RankedTopThree ==
    Scored =>
        /\ Len(ranked) = (IF Cardinality(Positive) < 3 THEN Cardinality(Positive) ELSE 3)
        /\ \A k \in 1..Len(ranked) :
              \E i \in Positive : PlaceOf(i) = k /\ ranked[k] = existingFolders[i]

\* four folders score above 0, two of them equally: the fourth is cut and the
\* equal ones stay in the scanner's order
C12_Witness ==
    /\ Scored
    /\ suggestion = <<"proj", "notes">>
    /\ existingFolders = << <<"proj", "ideas">>, <<"proj">>, <<"proj", "My-Notes">>,
                            <<"proj", "notes">> >>
    /\ ranked = << <<"proj", "notes">>, <<"proj", "ideas">>, <<"proj", "My-Notes">> >>

ScenarioFolders ==
    /\ existingFolders = << <<"proj", "notes">>, <<"proj", "ideas">>, <<"personal", "journal">> >>
    /\ suggestion = <<"proj", "notes", "archive">>

\* C13 as stated: for the folders proj/notes, proj/ideas, personal/journal and
\* the suggestion proj/notes/archive, proj/notes is first with score 4, then
\* proj/ideas with score 2, and personal/journal is left out.
C13_Original ==
    (Scored /\ ScenarioFolders) =>
        /\ ranked = << <<"proj", "notes">>, <<"proj", "ideas">> >>
        /\ folderScores[1] = 4
        /\ folderScores[2] = 2
        /\ folderScores[3] <= 0

\* C13: the same ranking, with the scores 3, 1 and -1.
C13_ScenarioScores ==
    (Scored /\ ScenarioFolders) =>
        /\ ranked = << <<"proj", "notes">>, <<"proj", "ideas">> >>
        /\ folderScores = <<3, 1, -1>>

C13_Witness == Scored /\ ScenarioFolders /\ Len(ranked) = 2

\* C14: no folder scores higher against a path than the path itself, for the
\* suggestion and for every folder of the list.
C14_SelfScoreIsHighest ==
    Scored => \A i \in 1..Len(existingFolders) :
                 /\ similarity(suggestion, suggestion) >= folderScores[i]
                 /\ similarity(existingFolders[i], existingFolders[i]) >= folderScores[i]

\* a folder that extends the suggestion scores 3 against it, the suggestion
\* itself 4
C14_Witness ==
    /\ Scored
    /\ suggestion = <<"proj", "notes">>
    /\ existingFolders = << <<"proj", "notes", "archive">>, <<"proj", "notes">> >>
    /\ folderScores = <<3, 4>>

-----------------------------------------------------------------------------
(* Properties of the folder scanner, under SpecScan *)

Scanned == scanPc = "done"

ScannedSet == {scanned[i] : i \in 1..Len(scanned)}

\* p is a proper prefix of q
Above(p, q) == Len(p) < Len(q) /\ SubSeq(q, 1, Len(p)) = p

\* the relative paths of the directories d levels or fewer below the root
Below(depth) ==
    {SubSeq(d, Len(ScanRoot) + 1, Len(d)) :
        d \in {e \in dirs : Above(ScanRoot, e) /\ Len(e) - Len(ScanRoot) <= depth}}

\* every directory comes once, before its descendants, which follow it
\* without another branch in between
DepthFirst ==
    /\ \A i, j \in 1..Len(scanned) : i # j => scanned[i] # scanned[j]
    /\ \A i, j \in 1..Len(scanned) : Above(scanned[i], scanned[j]) => i < j
    /\ \A i, j, k \in 1..Len(scanned) :
          (i < k /\ k < j /\ Above(scanned[i], scanned[j])) => Above(scanned[i], scanned[k])

\* C15: a scan of depth 0 returns nothing; a scan in which every listing
\* succeeds returns exactly the directories, never a file, that lie at most
\* depth levels below the root, as relative paths of at most depth segments,
\* every directory before its descendants, depth first.
C15_ExactlyDirsWithinDepth ==
    Scanned =>
        /\ scanDepth = 0 => scanned = <<>>
        /\ unreadable = {} =>
              /\ ScannedSet = Below(scanDepth)
              /\ \A p \in ScannedSet :
                    /\ ScanRoot \o p \in dirs
                    /\ ScanRoot \o p \notin DOMAIN files
                    /\ Len(p) >= 1 /\ Len(p) <= scanDepth
              /\ DepthFirst

\* a tree two levels deep with files beside the directories, scanned one
\* level deep: the second level and the files are left out
C15_Witness ==
    /\ Scanned
    /\ unreadable = {}
    /\ scanDepth = 1
    /\ {<<"ws", "a", "b">>, <<"ws", "c">>} \subseteq dirs
    /\ {<<"ws", "f.md">>, <<"ws", "a", "f.md">>} \subseteq DOMAIN files
    /\ scanned = << <<"a">>, <<"c">> >>

\* the relative paths reached from the root through listings that succeed
Reached(depth) ==
    {p \in Below(depth) :
        \A k \in 0..(Len(p) - 1) :
            ScanRoot \o SubSeq(p, 1, k) \notin unreadable}

\* C16: a listing that fails does not end the scan: the result holds exactly
\* the directories reached through listings that succeed, so a directory
\* whose listing fails contributes none of its descendants and every other
\* branch is returned, in the same order.
C16_FailedListingSkipsOnlyItsBranch ==
    Scanned =>
        /\ ScannedSet = Reached(scanDepth)
        /\ DepthFirst

\* the listing of ws/a fails: ws/a itself and the branch ws/c after it are
\* returned, ws/a/b is not
C16_Witness ==
    /\ Scanned
    /\ scanDepth = 3
    /\ unreadable = {<<"ws", "a">>}
    /\ {<<"ws", "a", "b">>, <<"ws", "c">>} \subseteq dirs
    /\ <<"ws", "_drafts">> \notin dirs
    /\ scanned = << <<"a">>, <<"c">> >>

-----------------------------------------------------------------------------
(* Further properties of the pruner, under SpecPrune *)

\* C17: with a workspace folder as boundary, a call whose start directory
\* does not exist raises no error and removes nothing, and no call reads or
\* removes a directory above the boundary, wherever it starts.
C17_MissingStartIsNoopAndNothingAbove ==
    workspaceFolder = WS =>
        /\ (prunePc # "idle" /\ startDir \notin dirs0) =>
              (prunePc # "threw" /\ deleted = {})
        /\ prunePc \in {"readdir", "rmdir"} => ~Above(curr, workspaceFolder)
        /\ \A d \in deleted : ~Above(d, workspaceFolder)

-----------------------------------------------------------------------------
(* Further properties of the handlers, under SpecNotes *)

\* the steps that wait for an answer of the user
AtPrompt == pc \in {"promptTags", "pick", "promptRelPath", "promptFileName", "promptName"}

\* C18: a prompt ends the operation only when the user dismissed it: an
\* answer confirmed with an empty text is taken as a value and the operation
\* goes on.  (cancelled' is FALSE when no prompt was dismissed so far, the
\* one of this step included.)
C18_OnlyDismissalAborts ==
    [][(AtPrompt /\ pc' = "returned") => cancelled']_vars

\* a required setting is absent, no editor is active, or the document is
\* not Markdown
Unfit ==
    \/ ~apiKey \/ ~targetRootSet \/ workspaceFolder = Undefined
    \/ ~activeEditor \/ ~docMarkdown

\* C19: when the API key, the target root or the workspace folder is absent,
\* when no editor is active, or when the document is not Markdown, handleNote
\* returns with a message, having made no AI call and no file-system access.
C19_UnfitReturnsBeforeAnyCall ==
    (IsNoteSaver /\ Unfit) =>
        \/ pc = "start"
        \/ /\ pc = "returned"
           /\ messages \in {{"error"}, {"warning"}}
           /\ calls = {}
           /\ FsUntouched

\* everything is in place but the target root: the handler has returned
\* with the error message
C19_Witness ==
    /\ handler = "handleNote"
    /\ apiKey /\ workspaceFolder = WS /\ ~targetRootSet
    /\ activeEditor /\ docMarkdown
    /\ pc = "returned"
    /\ messages = {"error"}
    /\ calls = {}

-----------------------------------------------------------------------------
(* Properties of a session, under SpecSession *)

\* the steps of an invocation that reach the file system
FsSteps == {"mkdir", "readFile", "writeFile", "unlink"}

\* the invocation has started and has not ended
Running(q) == procs[q].pc \notin {"idle", "done"}

\* C20: no two relocations run at once in a session: an invocation takes a
\* file-system step only while no other invocation is suspended at a
\* request, a prompt or a file-system step of its own.
C20_NoInterleavedRelocations ==
    [][\A p \in DOMAIN procs :
          (procs[p].pc \in FsSteps /\ procs'[p].pc # procs[p].pc)
             => \A q \in (DOMAIN procs) \ {p} : ~Running(q)]_vars

-----------------------------------------------------------------------------
(* Further properties of the frontmatter editor, under SpecUpsert *)

\* the content begins with a line that is exactly --- and a later line is
\* exactly ---
HasDelimitedBlock(content) ==
    LET ls == Split(content)
    IN  /\ Len(ls) >= 2
        /\ ls[1] = Dashes
        /\ \E i \in 2..Len(ls) : ls[i] = Dashes

\* the result for a content taken to have no block
Prepended(content) ==
    Dashes \o <<NL>> \o RenderedKeys \o <<NL>> \o Dashes \o <<NL>> \o content

\* C24: a content is taken to have a frontmatter block only when it begins
\* with a line that is exactly --- and a later line is exactly ---: every
\* other content, one whose only later --- stands inside a longer line
\* included, gets the new block prepended and is otherwise unchanged, and
\* every content with such lines is taken to have a block.
C24_BlockNeedsDelimiterLines ==
    applied >= 1 =>
        /\ ~HasDelimitedBlock(prev) => doc = Prepended(prev)
        /\ HasDelimitedBlock(prev) => YamlMatchLen(prev) > 0

NonBlank(line) == Trim(line) # <<>>

\* the lines of the block that was there, the blank ones aside
Present == SelectSeq(BodyLines(prev), NonBlank)

\* the key of the mapping entry is on no line of the block
KeyAbsent(entry) == \A i \in 1..Len(Present) : ~LineHasKey(Present[i], entry.key)

\* the rendered lines of the keys that were not in the block, in mapping order
Appended ==
    LET absent == SelectSeq(keyValues, KeyAbsent)
    IN  [i \in 1..Len(absent) |-> RenderLine(absent[i].key, absent[i].value)]

\* what follows the block of a content
AfterBlock(content) == SubSeq(content, YamlMatchLen(content) + 1, Len(content))

\* an upsert into a content whose block is closed by a line of its own
UpsertedIntoBlock == applied >= 1 /\ ClosedByOwnLine(prev)

\* the lines of the new block, the blank ones aside
Resulting == SelectSeq(BodyLines(doc), NonBlank)

\* C25: when a block exists, every line whose key is not upserted is in the
\* new block unchanged, at its place among the lines; the rendered lines of
\* the upserted keys that were not in the block follow them in mapping order;
\* and what came after the block is the same, byte for byte.
C25_OtherLinesPassThrough ==
    UpsertedIntoBlock =>
        /\ ClosedByOwnLine(doc)
        /\ Len(Resulting) = Len(Present) + Len(Appended)
        /\ \A i \in 1..Len(Present) :
              KeyOf(Trim(Present[i])) \notin OwnKeys(keyValues)
                 => Resulting[i] = Present[i]
        /\ SubSeq(Resulting, Len(Present) + 1, Len(Resulting)) = Appended
        /\ AfterBlock(doc) = AfterBlock(prev)

\* the keys on the lines of a block
KeysOn(lines) == {KeyOf(Trim(lines[i])) : i \in 1..Len(lines)} \ {NoKey}

LinesWith(lines, key) == {i \in 1..Len(lines) : LineHasKey(lines[i], key)}

UniqueKeys(lines) == \A key \in KeysOn(lines) : Cardinality(LinesWith(lines, key)) = 1

\* C26: when no key is on more than one line of the block, no key is on more
\* than one line of the new block, and every upserted key is on exactly one.
C26_KeysStayUnique ==
    (UpsertedIntoBlock /\ UniqueKeys(BodyLines(prev))) =>
        /\ ClosedByOwnLine(doc)
        /\ UniqueKeys(BodyLines(doc))
        /\ \A key \in OwnKeys(keyValues) :
              Cardinality(LinesWith(BodyLines(doc), key)) = 1

\* tags was replaced where it stood and title was added to a block that
\* held tags and another line
C26_Witness ==
    /\ applied = 1
    /\ UniqueKeys(BodyLines(prev))
    /\ Len(BodyLines(prev)) = 2
    /\ LinesWith(BodyLines(prev), TagsKey) # {}
    /\ LinesWith(BodyLines(prev), TitleKey) = {}
    /\ Len(keyValues) = 2
    /\ ClosedByOwnLine(prev)
    /\ Len(BodyLines(doc)) = 3

-----------------------------------------------------------------------------
(* Termination of the pruner, under SpecPruneLive *)

\* the loop was left by its test or by break
EndedAtBoundaryOrNonEmpty == curr = workspaceFolder \/ Entries(curr) # {}

\* C27 as stated: every call ends, and it ends on reaching the boundary or on
\* meeting a directory that is not empty.
C27_Original ==
    /\ <>(prunePc = "done")
    /\ [](prunePc = "done" => EndedAtBoundaryOrNonEmpty)

\* C27: every call ends: it returns on reaching the boundary or on meeting a
\* directory that is not empty, or it ends with the error of a readdir or
\* rmdir that rejected.
C27_EndsOrThrows ==
    /\ <>(prunePc \in {"done", "threw"})
    /\ [](prunePc = "done" => EndedAtBoundaryOrNonEmpty)

\* without a workspace folder, a call from outside the workspace climbed to
\* the root of the file system, removing what was empty, and returned there
C27_Witness ==
    /\ prunePc = "done"
    /\ workspaceFolder = Undefined
    /\ startDir = <<"out", "d">>
    /\ curr = Root
    /\ deleted = {<<"out", "d">>, <<"out">>}

-----------------------------------------------------------------------------
(* The order of write and delete in moveAndTagFile, under SpecNotes *)

\* the destination holds the note as moveAndTagFile writes it
WrittenAtDest ==
    /\ DestPath \in DOMAIN files
    /\ files[DestPath] = NewContent(origContent, finalTags, reclassify)

\* the source file is there, as it was or rewritten in place
KeptAtSource ==
    /\ docFile \in DOMAIN files
    /\ files[docFile] = fsStart[2][docFile] \/ (DestPath = docFile /\ WrittenAtDest)

\* C28: moveAndTagFile deletes the source file only in a step before which
\* the destination holds the written note, and at every point of the
\* operation, after a failed step too, the note is at the source path or at
\* the destination path.
C28_SourceDeletedAfterDestWritten ==
    /\ []((IsNoteSaver /\ docFile \in DOMAIN fsStart[2]) => (KeptAtSource \/ WrittenAtDest))
    /\ [][(IsNoteSaver /\ docFile \in (DOMAIN files) \ (DOMAIN files')) => WrittenAtDest]_vars

\* the note was moved: the source is gone, the destination holds the note,
\* and the handler has returned
C28_Witness ==
    /\ IsNoteSaver
    /\ pc = "returned"
    /\ docFile \in DOMAIN fsStart[2]
    /\ docFile \notin DOMAIN files
    /\ WrittenAtDest

-----------------------------------------------------------------------------
(* The rename of the ai-notes commands, under SpecNotes *)

\* the handlers that move the note with vscode.workspace.fs.rename
UsesRename == handler \in {"reclassifyNote", "saveListener", "saveListener0"}

\* the files that were there beside the note
OtherFiles == (DOMAIN fsStart[2]) \ {docFile}

\* C29: the new-note listener and reclassifyNote never overwrite a file:
\* every file that was there beside the note stays as it was, and a rename
\* whose destination exists changes no file, so the note stays at its source
\* path.
C29_RenameNeverOverwrites ==
    /\ [](UsesRename =>
            \A f \in OtherFiles : f \in DOMAIN files /\ files[f] = fsStart[2][f])
    /\ [][(UsesRename /\ pc = "rename" /\ DestPath \in DOMAIN files)
             => (files' = files /\ pc' = "rejected")]_vars

\* the user confirmed the folder and name of a file that exists: the rename
\* was rejected, that file is as it was and the note is where it was
C29_Witness ==
    /\ handler = "reclassifyNote"
    /\ pc = "rejected"
    /\ DestPath = Obstacle
    /\ DestPath # docFile
    /\ Obstacle \in DOMAIN files
    /\ files[Obstacle] = fsStart[2][Obstacle]
    /\ docFile \in DOMAIN files
    /\ finalTags # <<>>

-----------------------------------------------------------------------------
(* Properties of the save listeners, under SpecListen *)

\* C30: the listener of a draft begins to relocate at most once, and only
\* for a save of the draft's own path; it is subscribed until the first save
\* of the draft and disposed from then on, so no later save of the draft and
\* no save of another document begins a run, however the run ended.
C30_ListenerRunsOncePerDraft ==
    \A d \in DOMAIN runs :
        /\ runs[d] <= 1
        /\ triggeredBy[d] \subseteq {d}
        /\ runs[d] = 1 <=> listeners[d] = "disposed"
        /\ listeners[d] = "subscribed" => saveCount[d] = 0

\* the run of d1 was cancelled and d1 was saved again; another document was
\* saved while the listener of d2 stayed subscribed
C30_Witness ==
    /\ DOMAIN runs = Drafts
    /\ stage["d1"] = "cancelled"
    /\ runs["d1"] = 1
    /\ saveCount["d1"] >= 2
    /\ saveCount[OtherDoc] >= 1
    /\ listeners["d2"] = "subscribed"
    /\ runs["d2"] = 0

-----------------------------------------------------------------------------
(* Properties of the tags of a note, under SpecTagFlow *)

\* the block that holds exactly the tags last confirmed
TagsBlock ==
    Dashes \o <<NL>> \o RenderLine(TagsKey, keyValues[1].value) \o <<NL>> \o Dashes \o <<NL>>

\* C21: after the new-note flow and after every later reclassify, the note is
\* one leading frontmatter block, which holds the tags last confirmed on its
\* one line, followed by the draft as it was: a reclassify rewrites the block
\* the creation made and adds no other.
C21_OneTagsBlockThroughout ==
    applied >= 1 =>
        /\ doc = TagsBlock \o orig
        /\ MatchedBlock(doc) = TagsBlock

\* a draft that has a block of its own was tagged, then reclassified twice
\* with other tags
C21_Witness ==
    /\ applied = 3
    /\ YamlMatchLen(orig) > 0
    /\ doc # prev
    /\ keyValues[1].value.items = << <<"x">> >>

-----------------------------------------------------------------------------
(* The tag entries of a reclassified note, frontmatter variant, under SpecUpsert *)

\* the mapping of the call upserts tags
UpsertsTags == \E i \in 1..Len(keyValues) : keyValues[i].key = TagsKey

\* the line the call renders for tags
ConfirmedTagsLine ==
    LET i == CHOOSE j \in 1..Len(keyValues) : keyValues[j].key = TagsKey
    IN  RenderLine(TagsKey, keyValues[i].value)

\* the lines between the opening delimiter line and the first later line
\* that is exactly ---
DelimitedBody(content) ==
    LET ls == Split(content)
        close == CHOOSE i \in 2..Len(ls) :
                     /\ ls[i] = Dashes
                     /\ \A j \in 2..(i - 1) : ls[j] # Dashes
    IN  SubSeq(ls, 2, close - 1)

\* the lines of the written block that are keyed tags
TagEntries == LinesWith(DelimitedBody(doc), TagsKey)

\* C22: after a reclassify of a note with a frontmatter block the block has
\* exactly one line keyed tags, and that line lists the confirmed tags.
C22_OneTagEntryAfterReclassify ==
    (applied >= 1 /\ UpsertsTags /\ HasDelimitedBlock(prev)) =>
        /\ HasDelimitedBlock(doc)
        /\ Cardinality(TagEntries) = 1
        /\ \A i \in TagEntries : DelimitedBody(doc)[i] = ConfirmedTagsLine

\* the same, for the notes whose block had at most one line keyed tags
C22_HoldsWithoutDuplicates ==
    (applied >= 1 /\ UpsertsTags /\ HasDelimitedBlock(prev)
        /\ Cardinality(LinesWith(DelimitedBody(prev), TagsKey)) <= 1) =>
        /\ HasDelimitedBlock(doc)
        /\ Cardinality(TagEntries) = 1
        /\ \A i \in TagEntries : DelimitedBody(doc)[i] = ConfirmedTagsLine

-----------------------------------------------------------------------------
(* The folder of a relocated note, under SpecNotes *)

\* at most 3 segments, each lowercase and without underscore (a segment is
\* one name, so it holds no separator)
FolderPathOk(relPath) ==
    /\ Len(relPath) <= 3
    /\ \A i \in 1..Len(relPath) :
          /\ lowered(relPath[i]) = relPath[i]
          /\ dashed(relPath[i]) = relPath[i]

\* the note stands at a destination where no file stood before
RelocatedToNewPath ==
    /\ DestPath \in DOMAIN files
    /\ DestPath \notin DOMAIN fsStart[2]

\* C23: the folder under which a note is relocated has at most 3 segments,
\* all lowercase and without underscores, whether it is the AI suggestion, a
\* picked folder or the user's manual entry.
C23_RelocationFolderIsFolderPath == RelocatedToNewPath => FolderPathOk(finalDir)

=============================================================================
